---- MODULE Spec2Model ----
(***************************************************************************)
(* A model of go-zpl, a codec for the ZeroMQ Property Language.            *)
(*                                                                         *)
(* Decoding (Decoder.Decode): a line scanner over the bytes of an          *)
(* io.Reader, the two line regexps, the indentation accounting that turns  *)
(* lines into parse events, and the reflective builder that applies the    *)
(* events to the caller's target.  Encoding (Encoder.Encode) is the        *)
(* reflective walk that writes the indented text.                          *)
(*                                                                         *)
(* Text is a sequence of one-character strings, so that every byte the     *)
(* scanner and the regexps look at is a byte of the model.  A Go value is  *)
(* a store: a function from paths (map key, struct field, pointer          *)
(* dereference) to nodes.                                                  *)
(***************************************************************************)
EXTENDS Integers, Sequences, FiniteSets, TLC

VARIABLES
    doc,        \* the input of this run: [lines, eol, final]
    rt,         \* the Go type of the value v handed to Decode
    r,          \* Decoder.r: the bytes the reader has not yet returned
    chunk,      \* the most bytes the reader returns from one Read
    eofEager,   \* the reader reports io.EOF together with its last bytes
    buffer,     \* Decoder.buffer
    prevDepth,  \* Decoder.prevDepth
    lineno,     \* Decoder.lineno
    queue,      \* Decoder.queue
    refs,       \* builder.refs: the stack of write targets (paths into mem)
    mem,        \* the caller's target, mutated in place
    e,          \* Decode's local e: the event next() returned
    err,        \* Decode's local err: the error next() returned
    ret,        \* the error Decode returned (read when pc = "done")
    pc,         \* where Decode is: newBuilder, next, consume, done, panic
    consumed,   \* the events handed to builder.consume so far, in order
    src,        \* the value handed to Marshal ("pc" = "marshal"), else the empty store
    w           \* Encoder.w: the writer Encode writes to

vars == <<doc, rt, r, chunk, eofEager, buffer, prevDepth, lineno, queue,
          refs, mem, e, err, ret, pc, consumed, src, w>>

(***************************************************************************)
(* Bounds of the model.                                                    *)
(***************************************************************************)
\* the most lines of a document of the scanner's runs
MaxLines == 3

\* the most lines of a document of the builder's runs
MaxBuildLines == 4

\* the lines of a document decoded into a typed record
MaxTypedLines == 2

\* the most calls of Write that succeed on a writer that fails
MaxWrites == 2

\* the most lines of a document with lines of spaces and tabs
MaxBlankLines == 3

\* the most lines of a document of quoted settings
MaxQuotedLines == 2

\* the most lines of a document with lines two levels deep
MaxDeepLines == 3

\* the most lines of a document read in pieces
MaxReadLines == 2

\* the most lines of a document decoded into a record with a * field
MaxStarLines == 3

(***************************************************************************)
(* Bytes.                                                                  *)
(***************************************************************************)
LF == "\n"
CR == "\r"
SP == " "
TAB == "\t"
HASH == "#"
EQUALS == "="
QUOTE == "\""
SLASH == "/"

Digits == {"0", "1", "2", "3", "4", "5", "6", "7", "8", "9"}

DigitValue(c) ==
    CASE c = "0" -> 0 [] c = "1" -> 1 [] c = "2" -> 2 [] c = "3" -> 3 [] c = "4" -> 4
      [] c = "5" -> 5 [] c = "6" -> 6 [] c = "7" -> 7 [] c = "8" -> 8 [] c = "9" -> 9

Letters ==
    {"a", "b", "c", "d", "e", "f", "g", "h", "i", "j", "k", "l", "m",
     "n", "o", "p", "q", "r", "s", "t", "u", "v", "w", "x", "y", "z",
     "A", "B", "C", "D", "E", "F", "G", "H", "I", "J", "K", "L", "M",
     "N", "O", "P", "Q", "R", "S", "T", "U", "V", "W", "X", "Y", "Z"}

\* [a-zA-Z0-9]
KeyFirst == Letters \cup Digits

\* [a-zA-Z0-9/]
KeyRest == KeyFirst \cup {SLASH}

\* \s of the regexp syntax: [\t\n\f\r ]
ReSpace == {SP, TAB, LF, CR, "\f"}

Min(a, b) == IF a < b THEN a ELSE b

Spaces(n) == [i \in 1..n |-> SP]

\* s[from..] (1-based), the Go slice s[from-1:]
Tail_(s, from) == SubSeq(s, from, Len(s))

\* bytes.IndexAny(s, "\n\r"), 1-based; 0 when there is none
IndexAny(s) ==
    LET hits == {i \in 1..Len(s) : s[i] \in {LF, CR}}
    IN  IF hits = {} THEN 0 ELSE CHOOSE i \in hits : \A j \in hits : i <= j

\* bytes.Trim(s, " \t")
Trim(s) ==
    LET keep == {i \in 1..Len(s) : s[i] \notin {SP, TAB}}
    IN  IF keep = {} THEN <<>>
        ELSE SubSeq(s, CHOOSE i \in keep : \A j \in keep : i <= j,
                       CHOOSE i \in keep : \A j \in keep : i >= j)

\* the number of leading bytes of s, from index from on, that are in set
RECURSIVE Run(_, _, _)
Run(s, from, set) ==
    IF from > Len(s) \/ s[from] \notin set THEN 0
    ELSE 1 + Run(s, from + 1, set)

(***************************************************************************)
(* Errors.  One record shape for all of them; kind is the Go type of the   *)
(* error ("nil" for no error, "EOF" for io.EOF).                           *)
(***************************************************************************)
MkErr(kind, line, key, type, value) ==
    [kind |-> kind, Line |-> line, Key |-> key, Type |-> type, Value |-> value]

nil == MkErr("nil", 0, <<>>, "", <<>>)
EOF == MkErr("EOF", 0, <<>>, "", <<>>)
\* io.ErrUnexpectedEOF, the error of a reader that fails
ErrUnexpectedEOF == MkErr("ErrUnexpectedEOF", 0, <<>>, "", <<>>)
SyntaxError(line) == MkErr("SyntaxError", line, <<>>, "", <<>>)
InvalidUnmarshalError(type) == MkErr("InvalidUnmarshalError", 0, <<>>, type, <<>>)
UnmarshalFieldError(key, type) == MkErr("UnmarshalFieldError", 0, key, type, <<>>)
UnmarshalTypeError(value, type) == MkErr("UnmarshalTypeError", 0, <<>>, type, value)
\* errors.New("zpl: cannot unmarshal into " + type), errors.New("zpl: unknown error.")
errorString(type) == MkErr("errorString", 0, <<>>, type, <<>>)

\* "subsection \"" + name + "\""
Subsection(name) ==
    <<"s", "u", "b", "s", "e", "c", "t", "i", "o", "n", " ", "\"">> \o name \o <<"\"">>

\* "value for key \"" + name + "\""
ValueForKey(name) ==
    <<"v", "a", "l", "u", "e", " ", "f", "o", "r", " ", "k", "e", "y", " ", "\"">>
        \o name \o <<"\"">>

(***************************************************************************)
(* Parse events.                                                           *)
(***************************************************************************)
addValue == 0
endSection == 1
startSection == 2

parseEvent(type, name, value) == [Type |-> type, Name |-> name, Value |-> value]

\* Decode's e == nil
NoEvent == [Type |-> -1, Name |-> <<>>, Value |-> <<>>]

(***************************************************************************)
(* The two line regexps.  A match is [ok, indent, key, hasvalue, value]:   *)
(* submatches 1, 3, 5 and 6 of the source's expressions.                   *)
(***************************************************************************)
NoMatch == [ok |-> FALSE, indent |-> <<>>, key |-> <<>>, hasvalue |-> <<>>, value |-> <<>>]

NoHead == [ok |-> FALSE, indent |-> <<>>, key |-> <<>>, rest |-> <<>>]

\* the key of klen bytes after sp spaces, and what follows it
reKeyAt(line, sp, klen) ==
    [ok     |-> TRUE,
     indent |-> SubSeq(line, 1, sp),
     key    |-> SubSeq(line, sp + 1, sp + klen),
     rest   |-> Tail_(line, sp + klen + 1)]

\* the head of a line that starts with sp spaces
reHeadAt(line, sp) ==
    IF sp % 4 = 0 /\ sp < Len(line) /\ line[sp + 1] \in KeyFirst
    THEN reKeyAt(line, sp, 1 + Run(line, sp + 2, KeyRest))
    ELSE NoHead

\* ^(?P<indent>(    )*)(?P<key>[a-zA-Z0-9][a-zA-Z0-9/]*) and what follows the key.
\* The indent is every leading space (the key cannot start with one) and the
\* key is maximal (what follows it is \s, "=" or the end).
reHead(line) == reHeadAt(line, Run(line, 1, {SP}))

\* rest after w1 bytes of white space: "=" and what follows it
reEqualsAt(rest, w1) ==
    IF w1 < Len(rest) /\ rest[w1 + 1] = EQUALS
    THEN [ok |-> TRUE, after |-> Tail_(rest, w1 + 2)]
    ELSE [ok |-> FALSE, after |-> <<>>]

\* (\s*(?P<hasvalue>=) : what follows the "=", or ok = FALSE when rest does
\* not start with \s*=
reEquals(rest) == reEqualsAt(rest, Run(rest, 1, ReSpace))

\* . of the regexp syntax matches any byte but \n
NoLF(s) == \A i \in 1..Len(s) : s[i] # LF

\* a line that is a key alone: the optional group is absent
Header(h) ==
    [ok |-> TRUE, indent |-> h.indent, key |-> h.key, hasvalue |-> <<>>, value |-> <<>>]

Setting(h, value) ==
    [ok |-> TRUE, indent |-> h.indent, key |-> h.key, hasvalue |-> <<EQUALS>>,
     value |-> value]

Max(set) == CHOOSE i \in set : \A j \in set : i >= j

\* \s*(?P<value>[^ ].*) on what follows the "=", w2 its leading white space:
\* where the value may start: after a prefix of the white space, on a byte
\* that is not a space, with no \n after it
valueStarts(after, w2) ==
    {i \in 1..Min(w2 + 1, Len(after)) : after[i] # SP /\ NoLF(Tail_(after, i + 1))}

\* \s* is greedy: the value starts as late as it may
rekeyvalueIn(h, after, starts) ==
    IF starts = {} THEN NoMatch ELSE Setting(h, Tail_(after, Max(starts)))

rekeyvalueEq(h, eq) ==
    IF ~eq.ok THEN NoMatch
    ELSE rekeyvalueIn(h, eq.after, valueStarts(eq.after, Run(eq.after, 1, ReSpace)))

rekeyvalueHead(h) ==
    IF ~h.ok THEN NoMatch
    ELSE IF h.rest = <<>> THEN Header(h)
    ELSE rekeyvalueEq(h, reEquals(h.rest))

\* rekeyvalue: ^indent key(\s*(?P<hasvalue>=)\s*(?P<value>[^ ].*))?$
rekeyvalue(line) == rekeyvalueHead(reHead(line))

\* \s*" on what follows the "=", w2 its leading white space: what follows the
\* opening quote (nothing when there is no quote there)
quotedBody(after, w2) ==
    IF w2 < Len(after) /\ after[w2 + 1] = QUOTE THEN Tail_(after, w2 + 2) ELSE <<>>

\* (?P<value>[^ ].*)"$ on what follows the opening quote
rekeyquotedIn(h, body) ==
    IF /\ Len(body) >= 2
       /\ body[1] # SP
       /\ NoLF(SubSeq(body, 2, Len(body) - 1))
       /\ body[Len(body)] = QUOTE
    THEN Setting(h, SubSeq(body, 1, Len(body) - 1))
    ELSE NoMatch

rekeyquotedEq(h, eq) ==
    IF ~eq.ok THEN NoMatch
    ELSE rekeyquotedIn(h, quotedBody(eq.after, Run(eq.after, 1, ReSpace)))

rekeyquotedHead(h) ==
    IF ~h.ok THEN NoMatch
    ELSE IF h.rest = <<>> THEN Header(h)
    ELSE rekeyquotedEq(h, reEquals(h.rest))

\* rekeyquoted: ^indent key(\s*(?P<hasvalue>=)\s*"(?P<value>[^ ].*)")?$
rekeyquoted(line) == rekeyquotedHead(reHead(line))

\* if match == nil { match = rekeyvalue.FindSubmatch(line) }
orRekeyvalue(match, line) == IF match.ok THEN match ELSE rekeyvalue(line)

\* match := rekeyquoted.FindSubmatch(line), then rekeyvalue
FindSubmatch(line) == orRekeyvalue(rekeyquoted(line), line)

(***************************************************************************)
(* The reader and the line scanner of Decoder.next.                        *)
(***************************************************************************)
\* b := make([]byte, 64)
ReadSize == 64

\* in what a reader holds: the place where its Read fails, and fails again
\* when called again
Broken == "broken"

\* n bytes off the reader holding rd
ReadN(rd, n, eager) ==
    [data |-> SubSeq(rd, 1, n),
     rd   |-> Tail_(rd, n + 1),
     err  |-> IF n = Len(rd) /\ (n = 0 \/ eager) THEN EOF ELSE nil]

\* the bytes of rd before the place where the reader fails
Readable(rd) ==
    IF \A i \in 1..Len(rd) : rd[i] # Broken THEN Len(rd)
    ELSE (CHOOSE i \in 1..Len(rd) : rd[i] = Broken /\ \A j \in 1..(i - 1) : rd[j] # Broken) - 1

\* d.r.Read(b) on a reader holding rd: the bytes returned, what is left, and
\* the error.  A bytes.Reader returns what it has, up to len(b), with no error,
\* and (0, io.EOF) once empty; a reader may also return fewer bytes (ch),
\* io.EOF together with its last bytes (eager), or no byte and an error of
\* its own.
Read(rd, ch, eager) ==
    IF rd # <<>> /\ rd[1] = Broken
    THEN [data |-> <<>>, rd |-> rd, err |-> ErrUnexpectedEOF]
    ELSE ReadN(rd, Min(Min(ch, ReadSize), Readable(rd)), eager)

\* a scanner that takes every terminator byte for a terminator of its own
twoByteNever(buf, n) == 0

\* 1 when the terminator at buf[n] is the first byte of \r\n or \n\r and the
\* second byte is in the buffer, else 0
twoByte(buf, n) ==
    IF /\ n + 1 <= Len(buf)
       /\ \/ buf[n] = CR /\ buf[n + 1] = LF
          \/ buf[n] = LF /\ buf[n + 1] = CR
    THEN 1 ELSE 0

\* The inner for loop: cut the next line off the buffer, reading as needed.
\* found: a terminator was seen (line is set); otherwise the reader is at
\* io.EOF and buf holds every byte that was left, or Read has failed and buf
\* is what it was.
RECURSIVE scanLine(_, _, _, _)

\* what the loop does with what Read returned: append and break at io.EOF,
\* return on another error (the bytes read with it are dropped), else append
\* and go on
scanLineRead(buf, ch, eager, rdres) ==
    IF rdres.err = EOF THEN
        [found |-> FALSE, line |-> <<>>, buf |-> buf \o rdres.data,
         rd |-> rdres.rd, err |-> EOF]
    ELSE IF rdres.err # nil THEN
        [found |-> FALSE, line |-> <<>>, buf |-> buf,
         rd |-> rdres.rd, err |-> rdres.err]
    ELSE scanLine(buf \o rdres.data, rdres.rd, ch, eager)

\* n is bytes.IndexAny(d.buffer, "\n\r"), 1-based
scanLineAt(buf, rd, ch, eager, n) ==
    IF n > 0 THEN
        [found |-> TRUE, line |-> SubSeq(buf, 1, n - 1),
         buf |-> Tail_(buf, n + 1 + twoByte(buf, n)), rd |-> rd, err |-> nil]
    ELSE scanLineRead(buf, ch, eager, Read(rd, ch, eager))

scanLine(buf, rd, ch, eager) == scanLineAt(buf, rd, ch, eager, IndexAny(buf))

\* The outer for loop: count a line, cut it, and go on while it is empty or a
\* comment.  line keeps the last line cut by an earlier round of the loop.
\* panic: bytes.Trim(line, " \t")[0] on a line of spaces and tabs only.
RECURSIVE scanLines(_, _, _, _, _, _)

scanned(no, line, in, panic) ==
    [lineno |-> no, line |-> line, buf |-> in.buf, rd |-> in.rd, err |-> in.err,
     panic |-> panic]

\* after the inner loop: leave at io.EOF (and when Read has failed: next
\* returns from inside the loop), go on after an empty line or a comment
scanLinesSkip(no, line, ch, eager, in) ==
    IF in.err # nil THEN scanned(no, line, in, FALSE)
    ELSE IF Len(line) = 0 THEN scanLines(no, line, in.buf, in.rd, ch, eager)
    ELSE IF Trim(line) = <<>> THEN scanned(no, line, in, TRUE)
    ELSE IF Trim(line)[1] = HASH THEN scanLines(no, line, in.buf, in.rd, ch, eager)
    ELSE scanned(no, line, in, FALSE)

\* d.lineno += 1, then the inner loop
scanLinesCut(no, line, ch, eager, in) ==
    scanLinesSkip(no + 1, IF in.found THEN in.line ELSE line, ch, eager, in)

scanLines(no, line, buf, rd, ch, eager) ==
    scanLinesCut(no, line, ch, eager, scanLine(buf, rd, ch, eager))

(***************************************************************************)
(* The event sequencer of Decoder.next.                                    *)
(***************************************************************************)
\* for depth < d.prevDepth { queue endSection; d.prevDepth-- }
RECURSIVE Exits(_)
Exits(n) == IF n <= 0 THEN <<>> ELSE <<parseEvent(endSection, <<>>, <<>>)>> \o Exits(n - 1)

\* a sequencer that opens no level for a section header
lineEventFlat(match, depth) ==
    IF Len(match.hasvalue) > 0
    THEN [events |-> <<parseEvent(addValue, match.key, match.value)>>,
          prevDepth |-> depth]
    ELSE [events |-> <<parseEvent(startSection, match.key, <<>>)>>,
          prevDepth |-> depth]

\* the line's own event, after the exits, and the depth after it
lineEvent(match, depth) ==
    IF Len(match.hasvalue) > 0
    THEN [events |-> <<parseEvent(addValue, match.key, match.value)>>,
          prevDepth |-> depth]
    ELSE [events |-> <<parseEvent(startSection, match.key, <<>>)>>,
          prevDepth |-> depth + 1]

withExits(exits, le) == [le EXCEPT !.events = exits \o @]

\* a sequencer that takes a line at the depth of its indent
lineEventsAtIndent(match, prev) ==
    withExits(Exits(prev - Len(match.indent) \div 4),
              lineEvent(match, Len(match.indent) \div 4))

\* The events one matched line appends to the queue, and d.prevDepth after it.
lineEvents(match, prev) ==
    withExits(Exits(prev - Len(match.indent) \div 4),
              lineEvent(match, Min(prev, Len(match.indent) \div 4)))

nextResult(d, ev, error, panic) == [d |-> d, e |-> ev, err |-> error, panic |-> panic]

\* e = d.queue[0]; d.queue = d.queue[1:]
dequeue(d, q, depth, error) ==
    nextResult([d EXCEPT !.queue = Tail(q), !.prevDepth = depth], Head(q), error, FALSE)

\* the matched line: queue its events and return the first
nextQueued(d, le, error) == dequeue(d, d.queue \o le.events, le.prevDepth, error)

\* the line was cut: match it, or fail with the number of the line
nextMatch(d, match, no, error) ==
    IF match.ok THEN nextQueued(d, lineEvents(match, d.prevDepth), error)
    ELSE nextResult(d, NoEvent, SyntaxError(no), FALSE)

\* after the scan, d with its buffer, reader and line counter advanced:
\* return // error from Read(); else
\* if err == io.EOF && len(line) == 0 { line = d.buffer, or return }
nextLine(d, sc) ==
    IF sc.panic THEN nextResult(d, NoEvent, nil, TRUE)
    ELSE IF sc.err # nil /\ sc.err # EOF THEN nextResult(d, NoEvent, sc.err, FALSE)
    ELSE IF sc.err = EOF /\ Len(sc.line) = 0 THEN
        IF Len(sc.buf) = 0 THEN nextResult(d, NoEvent, EOF, FALSE)
        ELSE nextMatch(d, FindSubmatch(sc.buf), sc.lineno, sc.err)
    ELSE nextMatch(d, FindSubmatch(sc.line), sc.lineno, sc.err)

nextScanned(d, sc) ==
    nextLine([d EXCEPT !.lineno = sc.lineno, !.buffer = sc.buf, !.r = sc.rd], sc)

\* Decoder.next as a function of the decoder's fields: the new fields, the
\* event and the error returned, and whether it panicked.
next(d) ==
    IF Len(d.queue) > 0 THEN dequeue(d, d.queue, d.prevDepth, nil)
    ELSE nextScanned(d, scanLines(d.lineno, <<>>, d.buffer, d.r, d.chunk, d.eofEager))

(***************************************************************************)
(* Go types.  A type is named by its Go spelling; the operators below are  *)
(* reflect.Type's Kind, Key, Elem, Bits and Field(i).  The record types    *)
(* are the ones the decode targets of this model are made of:              *)
(*                                                                         *)
(*   type Root struct {                                                    *)
(*       A *Sub            `a`                                             *)
(*       M map[string]*Sub `*`                                             *)
(*       N int16           `zpl:"n"`                                       *)
(*   }                                                                     *)
(*   type Sub struct {                                                     *)
(*       B []string `b`                                                    *)
(*       N int16    `zpl:"n"`                                              *)
(*       V bool     `v`                                                    *)
(*       S string   `zpl:"s"`                                              *)
(*       P *int     `p`                                                    *)
(*   }                                                                     *)
(*   type Conf struct {                                                    *)
(*       N int16    `n`                                                    *)
(*       U uint16   `u`                                                    *)
(*       V bool     `v`                                                    *)
(*       P *int     `p`                                                    *)
(*       H string   `zpl:"-"`                                              *)
(*       X string                                                          *)
(*       L []string `zpl:"l"`                                              *)
(*   }                                                                     *)
(*   type Host struct {                                                    *)
(*       Context Sub `c`                                                   *)
(*   }                                                                     *)
(*   type StarFirst struct {                                               *)
(*       M map[string]*Sub `*`                                             *)
(*       W map[string]*Sub `w`                                             *)
(*   }                                                                     *)
(*   type StarLast struct {                                                *)
(*       W map[string]*Sub `w`                                             *)
(*       M map[string]*Sub `*`                                             *)
(*   }                                                                     *)
(***************************************************************************)
StarTag == <<"*">>

\* the raw text of the struct tag `zpl:"name"`
ZplTag(name) == <<"z", "p", "l", ":", "\"">> \o name \o <<"\"">>

StructField(name, tag, type) == [Name |-> name, Tag |-> tag, Type |-> type]

Fields(t) ==
    CASE t = "Root" ->
            << StructField("A", <<"a">>, "*Sub"),
               StructField("M", StarTag, "map[string]*Sub"),
               StructField("N", ZplTag(<<"n">>), "int16") >>
      [] t = "Sub" ->
            << StructField("B", <<"b">>, "[]string"),
               StructField("N", ZplTag(<<"n">>), "int16"),
               StructField("V", <<"v">>, "bool"),
               StructField("S", ZplTag(<<"s">>), "string"),
               StructField("P", <<"p">>, "*int") >>
      [] t = "Conf" ->
            << StructField("N", <<"n">>, "int16"),
               StructField("U", <<"u">>, "uint16"),
               StructField("V", <<"v">>, "bool"),
               StructField("P", <<"p">>, "*int"),
               StructField("H", ZplTag(<<"-">>), "string"),
               StructField("X", <<>>, "string"),
               StructField("L", ZplTag(<<"l">>), "[]string") >>
      [] t = "Host" ->
            << StructField("Context", <<"c">>, "Sub") >>
      [] t = "StarFirst" ->
            << StructField("M", StarTag, "map[string]*Sub"),
               StructField("W", <<"w">>, "map[string]*Sub") >>
      [] t = "StarLast" ->
            << StructField("W", <<"w">>, "map[string]*Sub"),
               StructField("M", StarTag, "map[string]*Sub") >>
      [] t = "ZdcfRoot" ->
            << StructField("Context", <<"c", "o", "n", "t", "e", "x", "t">>, "*ZdcfContext"),
               StructField("Devices", StarTag, "map[string]*ZdcfDevice"),
               StructField("Version", <<"v", "e", "r", "s", "i", "o", "n">>, "float32") >>
      [] t = "ZdcfContext" ->
            << StructField("IoThreads", <<"i", "o", "t", "h", "r", "e", "a", "d", "s">>, "int"),
               StructField("Verbose", <<"v", "e", "r", "b", "o", "s", "e">>, "bool") >>
      [] t = "ZdcfDevice" ->
            << StructField("Type", <<"t", "y", "p", "e">>, "string"),
               StructField("Sockets", StarTag, "map[string]*ZdcfSocket") >>
      [] t = "ZdcfSocket" ->
            << StructField("Type", <<"t", "y", "p", "e">>, "string"),
               StructField("Options", <<"o", "p", "t", "i", "o", "n">>, "*ZdcfOptions"),
               StructField("Bind", <<"b", "i", "n", "d">>, "[]string"),
               StructField("Connect", <<"c", "o", "n", "n", "e", "c", "t">>, "[]string") >>
      [] t = "ZdcfOptions" ->
            << StructField("Hwm", ZplTag(<<"h", "w", "m">>), "*int"),
               StructField("Swap", <<"s", "w", "a", "p">>, "*int64"),
               StructField("Subscribe", ZplTag(<<"s", "u", "b", "s", "c", "r", "i", "b", "e">>), "[]string") >>
      [] t = "Dictionary" ->
            << StructField("Version", <<"v", "e", "r", "s", "i", "o", "n">>, "float32"),
               StructField("Words", <<"w", "o", "r", "d", "s">>, "map[string]*Word") >>
      [] t = "Word" ->
            << StructField("Kind", <<"k", "i", "n", "d">>, "string"),
               StructField("Aliases", <<"a", "l", "i", "a", "s">>, "[]string") >>
      [] t = "decodeCase" ->
            << StructField("Raw", <<>>, "[]uint8"),
               StructField("Value", <<>>, "interface {}"),
               StructField("ErrSub", <<>>, "string") >>
      [] t = "marshalMock" ->
            << StructField("Int", <<"i", "n", "t">>, "*int"),
               StructField("Int32", ZplTag(<<"i", "n", "t", "3", "2">>), "*int32") >>
      [] t = "Endpoint" ->
            << StructField("Address", ZplTag(<<"a", "d", "d", "r">>), "string"),
               StructField("Port", ZplTag(<<"p", "o", "r", "t">>), "int") >>
      [] t = "Config" ->
            << StructField("Endpoints",
                           ZplTag(<<"e", "n", "d", "p", "o", "i", "n", "t", "s">>),
                           "map[string]*Endpoint") >>
      [] OTHER -> <<>>

Kind(t) ==
    CASE t \in {"Root", "Sub", "Conf", "Host", "StarFirst", "StarLast",
                "ZdcfRoot", "ZdcfContext", "ZdcfDevice", "ZdcfSocket",
                "ZdcfOptions", "Dictionary", "Word", "decodeCase", "marshalMock",
                "Endpoint", "Config"} -> "Struct"
      [] t \in {"*Root", "*Sub", "*Conf", "*Host", "*StarFirst", "*StarLast",
                "*ZdcfRoot", "*ZdcfContext", "*ZdcfDevice", "*ZdcfSocket",
                "*ZdcfOptions", "*Dictionary", "*Word", "*decodeCase",
                "*marshalMock", "*Endpoint", "*Config", "*int", "*int32", "*int64",
                "*map[int]bool"} -> "Ptr"
      [] t \in {"map[string]interface {}", "map[string][]string",
                "map[string]bool", "map[string]string", "map[string]*Sub",
                "map[int]bool", "map[string]map[string]string", "map[string]int",
                "map[string]*int", "map[string]*ZdcfDevice",
                "map[string]*ZdcfSocket", "map[string]*Word",
                "map[string]*Endpoint"} -> "Map"
      [] t \in {"[]string", "[]uint8"} -> "Slice"
      [] t = "interface {}" -> "Interface"
      [] t = "string" -> "String"
      [] t = "bool" -> "Bool"
      [] t = "int" -> "Int"
      [] t = "int16" -> "Int16"
      [] t = "int32" -> "Int32"
      [] t = "int64" -> "Int64"
      [] t = "uint" -> "Uint"
      [] t = "uint8" -> "Uint8"
      [] t = "uint16" -> "Uint16"
      [] t = "uint32" -> "Uint32"
      [] t = "uint64" -> "Uint64"
      [] t = "float32" -> "Float32"
      [] t = "float64" -> "Float64"
      [] OTHER -> "Invalid"

\* reflect.Type.Key of a map type
KeyType(t) == IF t = "map[int]bool" THEN "int" ELSE "string"

\* reflect.Type.Elem of a map, pointer or slice type
Elem(t) ==
    CASE t = "*Root" -> "Root"
      [] t = "*Sub" -> "Sub"
      [] t = "*Conf" -> "Conf"
      [] t = "*Host" -> "Host"
      [] t = "*StarFirst" -> "StarFirst"
      [] t = "*StarLast" -> "StarLast"
      [] t = "*ZdcfRoot" -> "ZdcfRoot"
      [] t = "*ZdcfContext" -> "ZdcfContext"
      [] t = "*ZdcfDevice" -> "ZdcfDevice"
      [] t = "*ZdcfSocket" -> "ZdcfSocket"
      [] t = "*ZdcfOptions" -> "ZdcfOptions"
      [] t = "*Dictionary" -> "Dictionary"
      [] t = "*Word" -> "Word"
      [] t = "*decodeCase" -> "decodeCase"
      [] t = "*marshalMock" -> "marshalMock"
      [] t = "*Endpoint" -> "Endpoint"
      [] t = "*Config" -> "Config"
      [] t = "*int" -> "int"
      [] t = "*int32" -> "int32"
      [] t = "*int64" -> "int64"
      [] t = "*map[int]bool" -> "map[int]bool"
      [] t = "map[string]interface {}" -> "interface {}"
      [] t = "map[string][]string" -> "[]string"
      [] t = "map[string]bool" -> "bool"
      [] t = "map[string]string" -> "string"
      [] t = "map[string]*Sub" -> "*Sub"
      [] t = "map[int]bool" -> "bool"
      [] t = "map[string]map[string]string" -> "map[string]string"
      [] t = "map[string]int" -> "int"
      [] t = "map[string]*int" -> "*int"
      [] t = "map[string]*ZdcfDevice" -> "*ZdcfDevice"
      [] t = "map[string]*ZdcfSocket" -> "*ZdcfSocket"
      [] t = "map[string]*Word" -> "*Word"
      [] t = "map[string]*Endpoint" -> "*Endpoint"
      [] t = "[]string" -> "string"
      [] t = "[]uint8" -> "uint8"
      [] OTHER -> ""

\* reflect.Type.Bits of a number type (int and uint are 64 bits wide)
Bits(t) ==
    CASE t = "uint8" -> 8
      [] t \in {"int16", "uint16"} -> 16
      [] t \in {"int32", "uint32", "float32"} -> 32
      [] OTHER -> 64

BACKSLASH == "\\"

\* the bytes of s that are not in stops
Others(s, stops) == {s[i] : i \in 1..Len(s)} \ stops

\* the bytes that end the key of a tag pair: a space, a control character, a
\* colon, a quote, the byte 0x7f

\* the index of the quote that closes the quoted string s (s[1] opens it), from
\* j on, a backslash taking the byte after it along; 0 when there is none
RECURSIVE closingQuote(_, _)
closingQuote(s, j) ==
    IF j > Len(s) THEN 0
    ELSE IF s[j] = QUOTE THEN j
    ELSE IF s[j] = BACKSLASH THEN closingQuote(s, j + 2)
    ELSE closingQuote(s, j + 1)

\* The bytes, by their codes from 0 on: each is spelled as the character it is;
\* a control character with no spelling of its own, the backquote and the
\* bytes from 127 on are spelled by their codes in hexadecimal.
ByteTable ==
    <<"\\x00", "\\x01", "\\x02", "\\x03", "\\x04", "\\x05", "\\x06", "\\x07",
       "\\x08", "\t", "\n", "\\x0b", "\f", "\r", "\\x0e", "\\x0f",
       "\\x10", "\\x11", "\\x12", "\\x13", "\\x14", "\\x15", "\\x16", "\\x17",
       "\\x18", "\\x19", "\\x1a", "\\x1b", "\\x1c", "\\x1d", "\\x1e", "\\x1f",
       " ", "!", "\"", "#", "$", "%", "&", "'",
       "(", ")", "*", "+", ",", "-", ".", "/",
       "0", "1", "2", "3", "4", "5", "6", "7",
       "8", "9", ":", ";", "<", "=", ">", "?",
       "@", "A", "B", "C", "D", "E", "F", "G",
       "H", "I", "J", "K", "L", "M", "N", "O",
       "P", "Q", "R", "S", "T", "U", "V", "W",
       "X", "Y", "Z", "[", "\\", "]", "^", "_",
       "\\x60", "a", "b", "c", "d", "e", "f", "g",
       "h", "i", "j", "k", "l", "m", "n", "o",
       "p", "q", "r", "s", "t", "u", "v", "w",
       "x", "y", "z", "{", "|", "}", "~", "\\x7f",
       "\\x80", "\\x81", "\\x82", "\\x83", "\\x84", "\\x85", "\\x86", "\\x87",
       "\\x88", "\\x89", "\\x8a", "\\x8b", "\\x8c", "\\x8d", "\\x8e", "\\x8f",
       "\\x90", "\\x91", "\\x92", "\\x93", "\\x94", "\\x95", "\\x96", "\\x97",
       "\\x98", "\\x99", "\\x9a", "\\x9b", "\\x9c", "\\x9d", "\\x9e", "\\x9f",
       "\\xa0", "\\xa1", "\\xa2", "\\xa3", "\\xa4", "\\xa5", "\\xa6", "\\xa7",
       "\\xa8", "\\xa9", "\\xaa", "\\xab", "\\xac", "\\xad", "\\xae", "\\xaf",
       "\\xb0", "\\xb1", "\\xb2", "\\xb3", "\\xb4", "\\xb5", "\\xb6", "\\xb7",
       "\\xb8", "\\xb9", "\\xba", "\\xbb", "\\xbc", "\\xbd", "\\xbe", "\\xbf",
       "\\xc0", "\\xc1", "\\xc2", "\\xc3", "\\xc4", "\\xc5", "\\xc6", "\\xc7",
       "\\xc8", "\\xc9", "\\xca", "\\xcb", "\\xcc", "\\xcd", "\\xce", "\\xcf",
       "\\xd0", "\\xd1", "\\xd2", "\\xd3", "\\xd4", "\\xd5", "\\xd6", "\\xd7",
       "\\xd8", "\\xd9", "\\xda", "\\xdb", "\\xdc", "\\xdd", "\\xde", "\\xdf",
       "\\xe0", "\\xe1", "\\xe2", "\\xe3", "\\xe4", "\\xe5", "\\xe6", "\\xe7",
       "\\xe8", "\\xe9", "\\xea", "\\xeb", "\\xec", "\\xed", "\\xee", "\\xef",
       "\\xf0", "\\xf1", "\\xf2", "\\xf3", "\\xf4", "\\xf5", "\\xf6", "\\xf7",
       "\\xf8", "\\xf9", "\\xfa", "\\xfb", "\\xfc", "\\xfd", "\\xfe", "\\xff" >>

\* the byte of code n, and the code of the byte c
Chr(n) == ByteTable[n + 1]
Ord(c) == CHOOSE n \in 0..255 : Chr(n) = c

TagKeyStops == {Chr(n) : n \in 0..32} \cup {":", QUOTE, Chr(127)}

HexDigits == Digits \cup {"a", "b", "c", "d", "e", "f", "A", "B", "C", "D", "E", "F"}

HexValue(c) ==
    CASE c \in Digits -> DigitValue(c)
      [] c \in {"a", "A"} -> 10 [] c \in {"b", "B"} -> 11 [] c \in {"c", "C"} -> 12
      [] c \in {"d", "D"} -> 13 [] c \in {"e", "E"} -> 14 [] c \in {"f", "F"} -> 15

\* the number the digits ds spell in the given base
RECURSIVE InBase(_, _)
InBase(ds, base) ==
    IF ds = <<>> THEN 0
    ELSE base * InBase(SubSeq(ds, 1, Len(ds) - 1), base) + HexValue(ds[Len(ds)])

\* the byte a one-letter escape of a quoted string stands for
Escaped(c) ==
    CASE c = "n" -> LF
      [] c = "r" -> CR
      [] c = "t" -> TAB
      [] c = "f" -> "\f"
      [] c = "a" -> Chr(7)
      [] c = "b" -> Chr(8)
      [] c = "v" -> Chr(11)
      [] OTHER -> c

\* the digits of an escape spelled with digits, after the backslash: two
\* hexadecimal digits after x, four after u, eight after U, else three octal
\* digits, the first of them included
EscapeLen(c) == CASE c = "x" -> 3 [] c = "u" -> 5 [] c = "U" -> 9 [] OTHER -> 3

EscapeDigits(body) ==
    IF body[1] \in {"x", "u", "U"} THEN SubSeq(body, 2, EscapeLen(body[1]))
    ELSE SubSeq(body, 1, 3)

OctalDigits == {"0", "1", "2", "3", "4", "5", "6", "7"}

\* the code the escape spells (of \U, whose first two digits are to be 0, by
\* its last six)
EscapeCode(body) ==
    CASE body[1] = "U" -> InBase(SubSeq(body, 4, 9), 16)
      [] body[1] \in {"x", "u"} -> InBase(EscapeDigits(body), 16)
      [] OTHER -> InBase(EscapeDigits(body), 8)

\* the escape is well formed: enough digits, of its base, and a code there is
\* (a byte for octal; a code point that is no surrogate half for \u and \U)
GoodEscape(body) ==
    /\ Len(body) >= EscapeLen(body[1])
    /\ \A i \in 1..Len(EscapeDigits(body)) :
          EscapeDigits(body)[i] \in (IF body[1] \in {"x", "u", "U"} THEN HexDigits
                                     ELSE OctalDigits)
    /\ body[1] = "U" => SubSeq(body, 2, 3) = <<"0", "0">>
    /\ body[1] \in {"u", "U"} =>
          EscapeCode(body) <= 1114111 /\ EscapeCode(body) \notin 55296..57343
    /\ body[1] \in OctalDigits => EscapeCode(body) <= 255

\* utf8.AppendRune: the bytes that encode the code point c
EncodeRune(c) ==
    IF c < 128 THEN <<Chr(c)>>
    ELSE IF c < 2048 THEN <<Chr(192 + c \div 64), Chr(128 + (c % 64))>>
    ELSE IF c < 65536
         THEN <<Chr(224 + c \div 4096), Chr(128 + ((c \div 64) % 64)), Chr(128 + (c % 64))>>
    ELSE <<Chr(240 + c \div 262144), Chr(128 + ((c \div 4096) % 64)),
           Chr(128 + ((c \div 64) % 64)), Chr(128 + (c % 64))>>

\* utf8.RuneError, encoded
RuneError == EncodeRune(65533)

\* the byte i of s is there and its code is from lo to hi; a continuation byte
ByteIn(s, i, lo, hi) == i <= Len(s) /\ Ord(s[i]) >= lo /\ Ord(s[i]) <= hi
Continued(s, from, to) == \A i \in from..to : ByteIn(s, i, 128, 191)

\* utf8.DecodeRune, for a first byte of code b >= 128: the number of bytes of
\* the code point s begins with, 0 when s begins with no encoding of one
RuneLenOf(s, b) ==
    CASE b \in 194..223 /\ Continued(s, 2, 2) -> 2
      [] b = 224 /\ ByteIn(s, 2, 160, 191) /\ Continued(s, 3, 3) -> 3
      [] b \in (225..236) \cup (238..239) /\ Continued(s, 2, 3) -> 3
      [] b = 237 /\ ByteIn(s, 2, 128, 159) /\ Continued(s, 3, 3) -> 3
      [] b = 240 /\ ByteIn(s, 2, 144, 191) /\ Continued(s, 3, 4) -> 4
      [] b \in 241..243 /\ Continued(s, 2, 4) -> 4
      [] b = 244 /\ ByteIn(s, 2, 128, 143) /\ Continued(s, 3, 4) -> 4
      [] OTHER -> 0

\* strconv.Unquote of the inside of a double-quoted string: [ok, s].  A line
\* feed, and a backslash before anything but an escape, is a syntax error.
\* \x and the octal escapes spell a byte, \u and \U a code point, appended as
\* its encoding; a byte from 128 on that begins no encoding of a code point is
\* replaced by utf8.RuneError.
RECURSIVE unquoted(_, _)
unquotedEscape(body, acc) ==
    IF body = <<>> THEN [ok |-> FALSE, s |-> <<>>]
    ELSE IF body[1] \in {"a", "b", "f", "n", "r", "t", "v", BACKSLASH, QUOTE}
         THEN unquoted(Tail(body), Append(acc, Escaped(body[1])))
    ELSE IF body[1] \in {"x", "u", "U"} \cup OctalDigits
         THEN IF GoodEscape(body)
              THEN unquoted(Tail_(body, EscapeLen(body[1]) + 1),
                            IF body[1] \in {"u", "U"}
                            THEN acc \o EncodeRune(EscapeCode(body))
                            ELSE Append(acc, Chr(EscapeCode(body))))
              ELSE [ok |-> FALSE, s |-> <<>>]
    ELSE [ok |-> FALSE, s |-> <<>>]

unquotedRune(body, acc, n) ==
    IF n = 0 THEN unquoted(Tail(body), acc \o RuneError)
    ELSE unquoted(Tail_(body, n + 1), acc \o SubSeq(body, 1, n))

unquoted(body, acc) ==
    IF body = <<>> THEN [ok |-> TRUE, s |-> acc]
    ELSE IF body[1] = LF THEN [ok |-> FALSE, s |-> <<>>]
    ELSE IF body[1] = BACKSLASH THEN unquotedEscape(Tail(body), acc)
    ELSE IF Ord(body[1]) < 128 THEN unquoted(Tail(body), Append(acc, body[1]))
    ELSE unquotedRune(body, acc, RuneLenOf(body, Ord(body[1])))

\* value, err := strconv.Unquote(qvalue); if err != nil { break }
tagValue(u) == IF u.ok THEN u.s ELSE <<>>

RECURSIVE tagLookup(_, _)

\* the pair whose key is name and whose quoted value is tag[1..q]: the value
\* when it is the pair asked for, else on with what follows
tagPair(tag, key, name, q) ==
    IF q = 0 THEN <<>>
    ELSE IF name = key THEN tagValue(unquoted(SubSeq(tag, 2, q - 1), <<>>))
    ELSE tagLookup(Tail_(tag, q + 1), key)

\* tag with no leading space, the key of its first pair i bytes long
tagKey(tag, key, i) ==
    IF i = 0 \/ i + 2 > Len(tag) THEN <<>>
    ELSE IF tag[i + 1] # ":" \/ tag[i + 2] # QUOTE THEN <<>>
    ELSE tagPair(Tail_(tag, i + 2), key, SubSeq(tag, 1, i), closingQuote(Tail_(tag, i + 2), 2))

tagSkipped(tag, key) ==
    IF tag = <<>> THEN <<>> ELSE tagKey(tag, key, Run(tag, 1, Others(tag, TagKeyStops)))

\* reflect.StructTag.Lookup: the pairs key:"value" of the tag one after the
\* other, each after optional spaces, up to the one asked for or to the first
\* that is not well formed
tagLookup(tag, key) == tagSkipped(Tail_(tag, Run(tag, 1, {SP}) + 1), key)

\* reflect.StructTag.Get("zpl")
TagGet(tag) == tagLookup(tag, <<"z", "p", "l">>)

(***************************************************************************)
(* Numbers.  An integer is held as its sign and the decimal digits of its  *)
(* magnitude, without leading zeros: Go's integers are up to 64 bits wide, *)
(* this module's own are 32.  A float is held as the shortest decimal that *)
(* rounds to it, 0.digits times 10^point with no zero at either end of     *)
(* digits (no digit at all: zero), or as an infinity or NaN: one decimal   *)
(* for each float32, and one for each float64.                             *)
(***************************************************************************)
Integer(neg, mag) == [neg |-> neg /\ mag # <<"0">>, mag |-> mag]

DigitChar(d) ==
    CASE d = 0 -> "0" [] d = 1 -> "1" [] d = 2 -> "2" [] d = 3 -> "3" [] d = 4 -> "4"
      [] d = 5 -> "5" [] d = 6 -> "6" [] d = 7 -> "7" [] d = 8 -> "8" [] d = 9 -> "9"

\* the decimal digits of n >= 0
RECURSIVE DigitsOf(_)
DigitsOf(n) ==
    IF n < 10 THEN <<DigitChar(n)>> ELSE Append(DigitsOf(n \div 10), DigitChar(n % 10))

\* the integer n, a number of this module
IntOf(n) == Integer(n < 0, DigitsOf(IF n < 0 THEN 0 - n ELSE n))

\* the number a sequence of decimal digits spells (of at most nine digits)
RECURSIVE Decimal(_)
Decimal(ds) ==
    IF ds = <<>> THEN 0
    ELSE 10 * Decimal(SubSeq(ds, 1, Len(ds) - 1)) + DigitValue(ds[Len(ds)])

\* the first index at which a and b differ, 0 when one begins the other
FirstDifference(a, b) ==
    IF \A i \in 1..Min(Len(a), Len(b)) : a[i] = b[i] THEN 0
    ELSE CHOOSE i \in 1..Min(Len(a), Len(b)) :
            a[i] # b[i] /\ \A j \in 1..(i - 1) : a[j] = b[j]

\* a < b, for digits a and b of one length
digitsLess(a, b) ==
    /\ FirstDifference(a, b) # 0
    /\ DigitValue(a[FirstDifference(a, b)]) < DigitValue(b[FirstDifference(a, b)])

\* a < b, for magnitudes with no leading zero
MagLess(a, b) == Len(a) < Len(b) \/ (Len(a) = Len(b) /\ digitsLess(a, b))

Float(class, neg, digits, point) ==
    [class |-> class, neg |-> neg, digits |-> digits, point |-> point]

FloatZero(neg) == Float("finite", neg, <<>>, 0)

\* the digits ds without their leading zeros, and without their trailing ones
NoLeadingZeros(ds) == Tail_(ds, Run(ds, 1, {"0"}) + 1)

NoTrailingZeros(ds) ==
    IF \A i \in 1..Len(ds) : ds[i] = "0" THEN <<>>
    ELSE SubSeq(ds, 1, CHOOSE i \in 1..Len(ds) :
                           ds[i] # "0" /\ \A j \in (i + 1)..Len(ds) : ds[j] = "0")

Zeros(n) == [i \in 1..n |-> "0"]

(***************************************************************************)
(* Go values.  The store maps a path to the node there; a path is a        *)
(* sequence of steps: into a map entry, into a struct field, through a     *)
(* pointer.  A node carries its dynamic type and its scalar content;       *)
(* isnil is the nil map, pointer, slice or interface.                      *)
(***************************************************************************)
MapKey(name) == [k |-> "key", name |-> name, i |-> 0]
Field(i) == [k |-> "field", name |-> <<>>, i |-> i]
Deref == [k |-> "elem", name |-> <<>>, i |-> 0]

\* A value: its type, whether it is nil, and what it holds as a number n, a
\* float f, a bool b, a string str or a slice of strings elems.
Node(t, isnil, n, b, str, elems) ==
    [t |-> t, isnil |-> isnil, n |-> IntOf(n), f |-> FloatZero(FALSE), b |-> b,
     str |-> str, elems |-> elems]

\* the integer n and the float f as values of type t
IntNode(t, n) == [Node(t, FALSE, 0, FALSE, <<>>, <<>>) EXCEPT !.n = n]
FloatNode(t, f) == [Node(t, FALSE, 0, FALSE, <<>>, <<>>) EXCEPT !.f = f]

\* reflect.Zero(t)
Zero(t) == Node(t, Kind(t) \in {"Map", "Ptr", "Slice", "Interface", "Invalid"},
                0, FALSE, <<>>, <<>>)

\* a non-nil map or pointer of type t
Made(t) == Node(t, FALSE, 0, FALSE, <<>>, <<>>)

EmptyStore == [p \in {} |-> Zero("")]

\* The store holding the zero value of type t at path p (a struct with its
\* fields, each zero).
RECURSIVE ZeroAt(_, _)
ZeroAt(p, t) ==
    LET RECURSIVE fieldsFrom(_)
        fieldsFrom(i) ==
            IF i > Len(Fields(t)) THEN EmptyStore
            ELSE ZeroAt(Append(p, Field(i)), Fields(t)[i].Type) @@ fieldsFrom(i + 1)
    IN  (p :> Zero(t)) @@ (IF Kind(t) = "Struct" THEN fieldsFrom(1) ELSE EmptyStore)

IsPrefix(p, q) == Len(p) <= Len(q) /\ SubSeq(q, 1, Len(p)) = p

\* the store without the value at p and everything below it
Without(m, p) == [q \in {q \in DOMAIN m : ~IsPrefix(p, q)} |-> m[q]]

\* the store with the value at p replaced by the value frag holds at its root
Install(m, p, frag) ==
    [q \in {p \o f : f \in DOMAIN frag} |-> frag[Tail_(q, Len(p) + 1)]] @@ Without(m, p)

\* the value at p as a store of its own, rooted at <<>>
ValueAt(m, p) ==
    [f \in {Tail_(q, Len(p) + 1) : q \in {q \in DOMAIN m : IsPrefix(p, q)}}
        |-> m[p \o f]]

\* reflect.New(t): a pointer of type pt to a zero t
New(pt) == (<<>> :> Made(pt)) @@ ZeroAt(<<Deref>>, Elem(pt))

\* the keys of the map at p (reflect.Value.MapKeys), as a set
MapKeys(m, p) ==
    {q[Len(q)].name : q \in {q \in DOMAIN m : /\ Len(q) = Len(p) + 1
                                              /\ IsPrefix(p, q)
                                              /\ q[Len(q)].k = "key"}}

(***************************************************************************)
(* strconv, as far as appendValue uses it.                                 *)
(***************************************************************************)
BoolTrue ==
    {<<"1">>, <<"t">>, <<"T">>, <<"T", "R", "U", "E">>, <<"t", "r", "u", "e">>,
     <<"T", "r", "u", "e">>}

BoolFalse ==
    {<<"0">>, <<"f">>, <<"F">>, <<"F", "A", "L", "S", "E">>, <<"f", "a", "l", "s", "e">>,
     <<"F", "a", "l", "s", "e">>}

\* strconv.ParseBool
ParseBool(value) == [ok |-> value \in BoolTrue \cup BoolFalse, b |-> value \in BoolTrue]

\* 2^(bits - 1): the first magnitude a signed integer of bits bits cannot hold
Cutoff(bits) ==
    CASE bits = 8 -> <<"1", "2", "8">>
      [] bits = 16 -> <<"3", "2", "7", "6", "8">>
      [] bits = 32 -> <<"2", "1", "4", "7", "4", "8", "3", "6", "4", "8">>
      [] OTHER -> <<"9", "2", "2", "3", "3", "7", "2", "0", "3", "6", "8", "5", "4", "7",
                    "7", "5", "8", "0", "8">>

\* 2^bits - 1: the largest unsigned integer of bits bits
MaxUint(bits) ==
    CASE bits = 8 -> <<"2", "5", "5">>
      [] bits = 16 -> <<"6", "5", "5", "3", "5">>
      [] bits = 32 -> <<"4", "2", "9", "4", "9", "6", "7", "2", "9", "5">>
      [] OTHER -> <<"1", "8", "4", "4", "6", "7", "4", "4", "0", "7", "3", "7", "0", "9",
                    "5", "5", "1", "6", "1", "5">>

NoNumber == [ok |-> FALSE, n |-> IntOf(0)]

\* a conversion that keeps the low bits bits of the number, as int16(n) does
intInRangeWrapping(neg, mag, bits) ==
    IF bits >= 32 \/ Len(mag) > 9 THEN [ok |-> TRUE, n |-> Integer(neg, mag)]
    ELSE [ok |-> TRUE,
          n |-> IntOf((((IF neg THEN 0 - Decimal(mag) ELSE Decimal(mag))
                            + 2 ^ (bits - 1)) % 2 ^ bits) - 2 ^ (bits - 1))]

\* the number of magnitude mag, when it is within bits bits:
\* if !neg && un >= cutoff, if neg && un > cutoff: range error
intInRange(neg, mag, bits) ==
    IF (neg /\ ~MagLess(Cutoff(bits), mag)) \/ (~neg /\ MagLess(mag, Cutoff(bits)))
    THEN [ok |-> TRUE, n |-> Integer(neg, mag)]
    ELSE NoNumber

\* the digits sig (no leading zero; none at all: zero) with their sign
parseDigits(neg, sig, bits) ==
    intInRange(neg, IF sig = <<>> THEN <<"0">> ELSE sig, bits)

\* what follows the sign: decimal digits, at least one
parseUnsigned(neg, ds, bits) ==
    IF Len(ds) > 0 /\ \A i \in 1..Len(ds) : ds[i] \in Digits
    THEN parseDigits(neg, NoLeadingZeros(ds), bits)
    ELSE NoNumber

\* strconv.ParseInt(value, 10, bits): an optional sign, then decimal digits,
\* the number within the range of bits bits
ParseInt(value, bits) ==
    IF Len(value) > 0 /\ value[1] \in {"+", "-"}
    THEN parseUnsigned(value[1] = "-", Tail(value), bits)
    ELSE parseUnsigned(FALSE, value, bits)

\* the number of magnitude mag, when bits bits hold it unsigned
uintInRange(mag, bits) ==
    IF ~MagLess(MaxUint(bits), mag) THEN [ok |-> TRUE, n |-> Integer(FALSE, mag)]
    ELSE NoNumber

\* strconv.ParseUint(value, 10, bits): decimal digits and no sign, the number
\* within the range of bits bits
ParseUint(value, bits) ==
    IF Len(value) > 0 /\ (\A i \in 1..Len(value) : value[i] \in Digits)
    THEN uintInRange(IF NoLeadingZeros(value) = <<>> THEN <<"0">>
                     ELSE NoLeadingZeros(value), bits)
    ELSE NoNumber

\* strconv.FormatUint(n, 10)
FormatUint(n) == n.mag

\* strconv.FormatInt(n, 10)
FormatInt(n) == IF n.neg THEN <<"-">> \o n.mag ELSE n.mag

Lower(c) ==
    CASE c = "A" -> "a"
      [] c = "B" -> "b"
      [] c = "C" -> "c"
      [] c = "D" -> "d"
      [] c = "E" -> "e"
      [] c = "F" -> "f"
      [] c = "G" -> "g"
      [] c = "H" -> "h"
      [] c = "I" -> "i"
      [] c = "J" -> "j"
      [] c = "K" -> "k"
      [] c = "L" -> "l"
      [] c = "M" -> "m"
      [] c = "N" -> "n"
      [] c = "O" -> "o"
      [] c = "P" -> "p"
      [] c = "Q" -> "q"
      [] c = "R" -> "r"
      [] c = "S" -> "s"
      [] c = "T" -> "t"
      [] c = "U" -> "u"
      [] c = "V" -> "v"
      [] c = "W" -> "w"
      [] c = "X" -> "x"
      [] c = "Y" -> "y"
      [] c = "Z" -> "z"
      [] OTHER -> c

LowerAll(s) == [i \in 1..Len(s) |-> Lower(s[i])]

NoFloat == [ok |-> FALSE, f |-> FloatZero(FALSE)]

\* special: "inf" and "infinity" with an optional sign, "nan" with none, in
\* any case of the letters
IsInf(s) == LowerAll(s) \in {<<"i", "n", "f">>, <<"i", "n", "f", "i", "n", "i", "t", "y">>}

IsNaN(s) == LowerAll(s) = <<"n", "a", "n">>

\* underscoreOK after the optional sign and base prefix: an underscore follows
\* a digit (or the prefix) and is followed by a digit.  saw is the kind of the
\* byte before: "0" a digit, "_" an underscore, "!" another byte.
RECURSIVE underscoreOKFrom(_, _, _)
underscoreOKFrom(s, hex, saw) ==
    IF s = <<>> THEN saw # "_"
    ELSE IF s[1] \in Digits \/ (hex /\ Lower(s[1]) \in {"a", "b", "c", "d", "e", "f"})
         THEN underscoreOKFrom(Tail(s), hex, "0")
    ELSE IF s[1] = "_"
         THEN saw = "0" /\ underscoreOKFrom(Tail(s), hex, "_")
    ELSE saw # "_" /\ underscoreOKFrom(Tail(s), hex, "!")

underscoreOKUnsigned(s) ==
    IF Len(s) >= 2 /\ s[1] = "0" /\ Lower(s[2]) \in {"b", "o", "x"}
    THEN underscoreOKFrom(Tail_(s, 3), Lower(s[2]) = "x", "0")
    ELSE underscoreOKFrom(s, FALSE, "^")

underscoreOK(s) ==
    IF Len(s) >= 1 /\ s[1] \in {"+", "-"} THEN underscoreOKUnsigned(Tail(s))
    ELSE underscoreOKUnsigned(s)

\* the bytes of the mantissa at the head of s: digits of set, underscores, and
\* one point
RECURSIVE mantissaLen(_, _, _)
mantissaLen(s, set, sawdot) ==
    IF s = <<>> THEN 0
    ELSE IF s[1] \in set \/ s[1] = "_" THEN 1 + mantissaLen(Tail(s), set, sawdot)
    ELSE IF s[1] = "." /\ ~sawdot THEN 1 + mantissaLen(Tail(s), set, TRUE)
    ELSE 0

\* the index of the point in the mantissa m, Len(m) + 1 when there is none
PointAt(m) ==
    IF \E i \in 1..Len(m) : m[i] = "." THEN CHOOSE i \in 1..Len(m) : m[i] = "."
    ELSE Len(m) + 1

DigitsIn(s, set) == SelectSeq(s, LAMBDA c : c \in set)

\* the exponent the digits and underscores ds spell: if e < 10000 { e = e*10 + digit }
RECURSIVE exponentFrom(_, _)
exponentFrom(ds, acc) ==
    IF ds = <<>> THEN acc
    ELSE IF ds[1] = "_" \/ acc >= 10000 THEN exponentFrom(Tail(ds), acc)
    ELSE exponentFrom(Tail(ds), acc * 10 + DigitValue(ds[1]))

\* the exponent part x (after the e or p, sign included): [ok, e].  After the
\* optional sign there is a digit, and digits and underscores up to the end.
exponentSigned(x, esign) ==
    IF x = <<>> \/ x[1] \notin Digits
       \/ Run(x, 1, Digits \cup {"_"}) # Len(x)
    THEN [ok |-> FALSE, e |-> 0]
    ELSE [ok |-> TRUE, e |-> esign * exponentFrom(x, 0)]

exponentOf(x) ==
    IF x = <<>> THEN [ok |-> FALSE, e |-> 0]
    ELSE IF x[1] = "+" THEN exponentSigned(Tail(x), 1)
    ELSE IF x[1] = "-" THEN exponentSigned(Tail(x), 0 - 1)
    ELSE exponentSigned(x, 1)

\* what follows the mantissa: nothing, or the exponent after expChar (in a
\* hexadecimal number the exponent is required)
exponentAfter(rest, expChar, required) ==
    IF rest = <<>> THEN [ok |-> ~required, e |-> 0]
    ELSE IF Lower(rest[1]) = expChar THEN exponentOf(Tail(rest))
    ELSE [ok |-> FALSE, e |-> 0]

\* the digits ds without their leading zeros, however many
Canonical(ds) ==
    IF \A i \in 1..Len(ds) : ds[i] = "0" THEN <<>>
    ELSE Tail_(ds, CHOOSE i \in 1..Len(ds) :
                        ds[i] # "0" /\ \A j \in 1..(i - 1) : ds[j] = "0")

\* The natural numbers of any size, each the digits of its decimal spelling
\* (none: zero).  One digit of ds times k plus carry:
timesDigit(d, k, carry) ==
    [carry |-> (DigitValue(d) * k + carry) \div 10,
     digits |-> <<DigitChar((DigitValue(d) * k + carry) % 10)>>]

timesJoin(hi, lo) == [carry |-> hi.carry, digits |-> hi.digits \o lo.digits]

RECURSIVE timesPart(_, _, _)

\* (the low half is worked out before the high half is entered)
timesHigh(high, k, lo) ==
    IF lo.carry = 0 THEN timesJoin(timesPart(high, k, 0), lo)
    ELSE timesJoin(timesPart(high, k, lo.carry), lo)

\* the digits ds (one at least) times k plus carry: as many digits, and the
\* carry out of them; the low half first, its carry into the high half
timesPart(ds, k, carry) ==
    IF Len(ds) = 1 THEN timesDigit(ds[1], k, carry)
    ELSE timesHigh(SubSeq(ds, 1, Len(ds) \div 2), k,
                   timesPart(SubSeq(ds, Len(ds) \div 2 + 1, Len(ds)), k, carry))

timesAll(res) == (IF res.carry = 0 THEN <<>> ELSE DigitsOf(res.carry)) \o res.digits

\* ds times k plus carry, for k < 10^8 and carry <= k
timesSmall(ds, k, carry) ==
    IF ds = <<>> THEN (IF carry = 0 THEN <<>> ELSE DigitsOf(carry))
    ELSE timesAll(timesPart(ds, k, carry))

\* the largest power of k taken in one step: 2^26 and 5^11 are below 10^8
PowerStep(k) == IF k = 2 THEN 26 ELSE 11

\* ds times k^n, for k 2 or 5
RECURSIVE timesPower(_, _, _)
timesPower(ds, k, n) ==
    IF ds = <<>> THEN <<>>
    ELSE IF n <= PowerStep(k) THEN timesSmall(ds, k ^ n, 0)
    ELSE timesPower(timesPower(ds, k, n \div 2), k, n - n \div 2)

\* one digit of a minus one of b minus borrow
minusDigit(x, y, borrow) ==
    [borrow |-> IF DigitValue(x) - DigitValue(y) - borrow < 0 THEN 1 ELSE 0,
     digits |-> <<DigitChar((DigitValue(x) - DigitValue(y) - borrow + 10) % 10)>>]

minusJoin(hi, lo) == [borrow |-> hi.borrow, digits |-> hi.digits \o lo.digits]

RECURSIVE minusPart(_, _, _)

minusHigh(a, b, lo) ==
    IF lo.borrow = 0 THEN minusJoin(minusPart(a, b, 0), lo)
    ELSE minusJoin(minusPart(a, b, 1), lo)

\* the digits a minus the digits b minus borrow, a and b of one length
minusPart(a, b, borrow) ==
    IF Len(a) = 1 THEN minusDigit(a[1], b[1], borrow)
    ELSE minusHigh(SubSeq(a, 1, Len(a) \div 2), SubSeq(b, 1, Len(a) \div 2),
                   minusPart(SubSeq(a, Len(a) \div 2 + 1, Len(a)),
                             SubSeq(b, Len(a) \div 2 + 1, Len(a)), borrow))

\* a - b, for a >= b
minus(a, b) ==
    IF b = <<>> THEN a
    ELSE Canonical(minusPart(a, Zeros(Len(a) - Len(b)) \o b, 0).digits)

IsOdd(ds) == ds # <<>> /\ DigitValue(ds[Len(ds)]) % 2 = 1

\* the digits of ds without the last k of them, and those last k digits
WithoutLast(ds, k) == SubSeq(ds, 1, Len(ds) - k)
Last(ds, k) == IF k > Len(ds) THEN Zeros(k - Len(ds)) \o ds ELSE Tail_(ds, Len(ds) - k + 1)

\* A float of bits bits is m 2^e, m below 2^MantBits and e from MinExp to
\* MaxExp: float32 and float64.
MantBits(bits) == IF bits = 32 THEN 24 ELSE 53
MinExp(bits) == IF bits = 32 THEN 0 - 149 ELSE 0 - 1074
MaxExp(bits) == IF bits = 32 THEN 104 ELSE 971

\* by far more, and by far less, than any float of bits bits: as a power of 2
FarExp(bits) == 2 * (MaxExp(bits) + MantBits(bits))

\* roundShortest, the digits cand with k digits dropped and s digits after
\* the point: the float as a decimal
shortestAs(neg, cand, k, s) ==
    Float("finite", neg, NoTrailingZeros(cand), Len(cand) + k - s)

\* (d *decimal).Round, shouldRoundUp: whether the nearest to the digits kept
\* (down) is the one above them, the digits dropped being tail; exactly
\* halfway, the even one
shouldRoundUp(down, tail) ==
    \/ DigitValue(tail[1]) > 5
    \/ /\ tail[1] = "5"
       /\ (Canonical(Tail(tail)) # <<>> \/ IsOdd(down))

\* the digits kept with k zeros for the digits dropped: on the right side of
\* the bound, or on it
okDown(lower, down, k, inclusive) ==
    \/ MagLess(lower, Canonical(down \o Zeros(k)))
    \/ inclusive /\ Canonical(down \o Zeros(k)) = lower

okUp(upper, up, k, inclusive) ==
    \/ MagLess(up \o Zeros(k), upper)
    \/ inclusive /\ up \o Zeros(k) = upper

\* n times 2^ex, for ex < 0 times 10^-ex too
scaled(n, ex) == IF ex >= 0 THEN timesPower(n, 2, ex) ELSE timesPower(n, 5, 0 - ex)

RECURSIVE shortestFrom(_, _, _, _, _, _, _)

\* with k digits dropped: the digits kept are down, and up is one more.  It is
\* okay to round down when that is above lower (or on it, inclusive), to round
\* up when that is below upper (or on it); okay both ways, to the nearest.
shortestAt(neg, lower, d, upper, inclusive, s, k, down, up) ==
    IF okDown(lower, down, k, inclusive) /\ okUp(upper, up, k, inclusive)
    THEN shortestAs(neg, IF shouldRoundUp(down, Last(d, k)) THEN up ELSE down, k, s)
    ELSE IF okDown(lower, down, k, inclusive) THEN shortestAs(neg, down, k, s)
    ELSE IF okUp(upper, up, k, inclusive) THEN shortestAs(neg, up, k, s)
    ELSE shortestFrom(neg, lower, d, upper, inclusive, s, k - 1)

\* walk along the digits until d has distinguished itself from upper and
\* lower: from the first digit of upper on, k the number of digits dropped
shortestFrom(neg, lower, d, upper, inclusive, s, k) ==
    IF k = 0 THEN shortestAs(neg, d, 0, s)
    ELSE shortestAt(neg, lower, d, upper, inclusive, s, k,
                    WithoutLast(d, Min(k, Len(d))),
                    timesSmall(WithoutLast(d, Min(k, Len(d))), 1, 1))

\* roundShortest: the shortest decimal that rounds to the float m 2^e, m > 0,
\* and of those the nearest to it.  The decimals between lower and upper round
\* to it (the bounds too when m is even): upper is halfway to the next float,
\* lower halfway to the one before, which is nearer below a power of 2.  The
\* three are whole numbers of 2^(e - 2): for e < 2, of 10^(e - 2) when
\* multiplied by 5^(2 - e), and then s = 2 - e digits are after the point.
roundShortest(neg, m, ex, bits) ==
    shortestFrom(neg,
                 scaled(IF m = timesPower(<<"1">>, 2, MantBits(bits) - 1) /\ ex > MinExp(bits)
                        THEN minus(timesSmall(m, 4, 0), <<"1">>)
                        ELSE minus(timesSmall(m, 4, 0), <<"2">>), ex - 2),
                 scaled(timesSmall(m, 4, 0), ex - 2),
                 scaled(timesSmall(m, 4, 2), ex - 2),
                 ~IsOdd(m),
                 IF ex < 2 THEN 2 - ex ELSE 0,
                 Len(scaled(timesSmall(m, 4, 2), ex - 2)))

\* the mantissa m, rounded, with the exponent e: a range error beyond the
\* largest float, zero when nothing is left of it
inRange(neg, m, ex, bits) ==
    IF ex > MaxExp(bits) THEN NoFloat
    ELSE [ok |-> TRUE, f |-> roundShortest(neg, m, ex, bits)]

rounded(neg, m, ex, bits) ==
    IF m = <<>> THEN [ok |-> TRUE, f |-> FloatZero(neg)]
    ELSE IF m = timesPower(<<"1">>, 2, MantBits(bits))
         THEN inRange(neg, timesPower(<<"1">>, 2, MantBits(bits) - 1), ex + 1, bits)
    ELSE inRange(neg, m, ex, bits)

\* round to nearest, half to even: q.m is the whole part of a / b and q.rem
\* what is left of it, as a part of bp
roundedUp(q, bp) ==
    IF MagLess(bp, timesSmall(q.rem, 2, 0)) \/ (timesSmall(q.rem, 2, 0) = bp /\ IsOdd(q.m))
    THEN timesSmall(q.m, 1, 1)
    ELSE q.m

\* one more bit of a / bp below the bits m, a2 being twice a
divideBit(a2, bp, m) ==
    IF MagLess(a2, bp) THEN [m |-> timesSmall(m, 2, 0), rem |-> a2]
    ELSE [m |-> timesSmall(m, 2, 1), rem |-> minus(a2, bp)]

RECURSIVE divideBits(_, _, _, _)

\* (nothing left of a: the rest of the bits are 0)
divideRest(first, bp, n) ==
    IF first.rem = <<>> THEN [m |-> timesPower(first.m, 2, n), rem |-> <<>>]
    ELSE divideBits(first.rem, bp, first.m, n)

\* n more bits of a / bp below the bits m, for a < bp: half of them, then the
\* rest of them
divideBits(a, bp, m, n) ==
    IF n = 0 THEN [m |-> m, rem |-> a]
    ELSE IF n = 1 THEN divideBit(timesSmall(a, 2, 0), bp, m)
    ELSE divideRest(divideBits(a, bp, m, n \div 2), bp, n - n \div 2)

\* the exponent e raised until a / b is below 2^MantBits: until a < bp
RECURSIVE floatBitsFrom(_, _, _, _, _)
floatBitsFrom(neg, a, bp, ex, bits) ==
    IF MagLess(a, bp)
    THEN rounded(neg, roundedUp(divideBits(a, bp, <<>>, MantBits(bits)), bp), ex, bits)
    ELSE floatBitsFrom(neg, a, timesSmall(bp, 2, 0), ex + 1, bits)

\* (d *decimal).floatBits, and the rounding of atofHex: the float nearest to
\* a / b, which is 2^low at least.  The exponent e begins at low less the bits
\* of a mantissa, or at the least exponent, and the mantissa is the whole part
\* of a / (b 2^e), rounded.
floatBitsAt(neg, a, b, ex, bits) ==
    floatBitsFrom(neg, timesPower(a, 2, Max({0, 0 - ex})),
                  timesPower(b, 2, MantBits(bits) + Max({0, ex})), ex, bits)

floatBits(neg, a, b, low, bits) ==
    floatBitsAt(neg, a, b, Max({MinExp(bits), low - (MantBits(bits) - 1)}), bits)

\* a power of 2 that 10^n is not below: log2(10) is 3.3219...
LowExp(n) == IF n >= 0 THEN (n * 3321) \div 1000 ELSE (n * 3322) \div 1000

\* the decimal 0.digits times 10^point as a float of bits bits: a whole number
\* of digits over a power of 10
decimalFloat(neg, digits, point, bits) ==
    IF digits = <<>> THEN [ok |-> TRUE, f |-> FloatZero(neg)]
    ELSE IF LowExp(point - 1) > FarExp(bits) THEN NoFloat
    ELSE IF LowExp(point - 1) < 0 - FarExp(bits) THEN [ok |-> TRUE, f |-> FloatZero(neg)]
    ELSE floatBits(neg, digits \o Zeros(Max({0, point - Len(digits)})),
                   <<"1">> \o Zeros(Max({0, Len(digits) - point})),
                   LowExp(point - 1), bits)

\* the digits of the mantissa, all of them and those before the point, with
\* the exponent
decimalDigits(neg, all, before, ex, bits) ==
    IF ~ex.ok THEN NoFloat
    ELSE decimalFloat(neg, NoTrailingZeros(NoLeadingZeros(all)),
                      Len(before) - Run(all, 1, {"0"}) + ex.e, bits)

\* a decimal number: the mantissa m (digits, underscores, a point; at least one
\* digit), then rest
decimalMantissa(neg, m, rest, bits) ==
    IF DigitsIn(m, Digits) = <<>> THEN NoFloat
    ELSE decimalDigits(neg, DigitsIn(m, Digits),
                       DigitsIn(SubSeq(m, 1, PointAt(m) - 1), Digits),
                       exponentAfter(rest, "e", FALSE), bits)

\* the decimal digits of the number the hexadecimal digits sig spell
RECURSIVE hexDecimal(_, _)
hexDecimal(sig, acc) ==
    IF sig = <<>> THEN acc
    ELSE IF acc = <<>> /\ sig[1] = "0" THEN hexDecimal(Tail(sig), <<>>)
    ELSE hexDecimal(Tail(sig), timesSmall(acc, 16, HexValue(sig[1])))

\* the hexadecimal digits sig of the mantissa (no leading zero), with the
\* exponent ex of 2 of the last of them: the number is 16^(Len(sig) - 1) at
\* least
hexFloat(neg, sig, ex, bits) ==
    IF sig = <<>> THEN [ok |-> TRUE, f |-> FloatZero(neg)]
    ELSE IF 4 * (Len(sig) - 1) + ex > FarExp(bits) THEN NoFloat
    ELSE IF 4 * Len(sig) + ex < 0 - FarExp(bits) THEN [ok |-> TRUE, f |-> FloatZero(neg)]
    ELSE floatBits(neg, timesPower(hexDecimal(sig, <<>>), 2, Max({0, ex})),
                   timesPower(<<"1">>, 2, Max({0, 0 - ex})),
                   4 * (Len(sig) - 1) + ex, bits)

\* the hexadecimal digits of the mantissa, frac of them after the point, with
\* the exponent of 2
hexDigits(neg, sig, frac, ex, bits) ==
    IF ~ex.ok THEN NoFloat
    ELSE hexFloat(neg, sig, ex.e - 4 * frac, bits)

\* a hexadecimal number after its 0x: the mantissa m, then rest
hexMantissa(neg, m, rest, bits) ==
    IF DigitsIn(m, HexDigits) = <<>> THEN NoFloat
    ELSE hexDigits(neg, NoLeadingZeros(DigitsIn(m, HexDigits)),
                   Len(DigitsIn(Tail_(m, PointAt(m) + 1), HexDigits)),
                   exponentAfter(rest, "p", TRUE), bits)

\* readFloat after the optional sign: base 16 after 0x when more follows it
readUnsigned(neg, s, bits) ==
    IF Len(s) > 2 /\ s[1] = "0" /\ Lower(s[2]) = "x"
    THEN hexMantissa(neg, SubSeq(s, 3, 2 + mantissaLen(Tail_(s, 3), HexDigits, FALSE)),
                     Tail_(s, 3 + mantissaLen(Tail_(s, 3), HexDigits, FALSE)), bits)
    ELSE decimalMantissa(neg, SubSeq(s, 1, mantissaLen(s, Digits, FALSE)),
                         Tail_(s, mantissaLen(s, Digits, FALSE) + 1), bits)

readFloat(value, bits) ==
    IF ~underscoreOK(value) THEN NoFloat
    ELSE IF Len(value) > 0 /\ value[1] \in {"+", "-"}
    THEN readUnsigned(value[1] = "-", Tail(value), bits)
    ELSE readUnsigned(FALSE, value, bits)

\* strconv.ParseFloat(value, bits): [ok, f], ok when the whole of value spells
\* a number and the number is in the range of a float of bits bits
ParseFloat(value, bits) ==
    IF IsNaN(value) THEN [ok |-> TRUE, f |-> Float("nan", FALSE, <<>>, 0)]
    ELSE IF IsInf(value) THEN [ok |-> TRUE, f |-> Float("inf", FALSE, <<>>, 0)]
    ELSE IF Len(value) > 0 /\ value[1] \in {"+", "-"} /\ IsInf(Tail(value))
    THEN [ok |-> TRUE, f |-> Float("inf", value[1] = "-", <<>>, 0)]
    ELSE readFloat(value, bits)

\* the decimal 0.digits times 10^point written without an exponent
formatDecimal(digits, point) ==
    IF digits = <<>> THEN <<"0">>
    ELSE IF point <= 0 THEN <<"0", ".">> \o Zeros(0 - point) \o digits
    ELSE IF point >= Len(digits) THEN digits \o Zeros(point - Len(digits))
    ELSE SubSeq(digits, 1, point) \o <<".">> \o Tail_(digits, point + 1)

\* strconv.FormatFloat(f, 'f', -1, bits): the shortest decimal that spells f
FormatFloat(f) ==
    CASE f.class = "nan" -> <<"N", "a", "N">>
      [] f.class = "inf" -> <<(IF f.neg THEN "-" ELSE "+"), "I", "n", "f">>
      [] OTHER -> (IF f.neg THEN <<"-">> ELSE <<>>) \o formatDecimal(f.digits, f.point)

(***************************************************************************)
(* The builder: appendValue, addValueToSection, getSubSection, consume.    *)
(***************************************************************************)
\* A reflect.Value handed to appendValue as its target: whether it IsValid and
\* CanSet, its Type (the static type of the slot it was read from), and the
\* value itself as a store rooted at <<>>.
NoValue == [valid |-> FALSE, canSet |-> FALSE, type |-> "", val |-> EmptyStore]
Value(type, canSet, val) == [valid |-> TRUE, canSet |-> canSet, type |-> type, val |-> val]

Scalar(node) == (<<>> :> node)

\* What appendValue does: result is the reflect.Value returned (the empty
\* store: the invalid Value), inplace the value it stored into a settable
\* target itself (SetBool, SetInt).
avResult(frag) == [result |-> frag, inplace |-> EmptyStore, err |-> nil, panic |-> FALSE]
avInPlace(frag) == [result |-> EmptyStore, inplace |-> frag, err |-> nil, panic |-> FALSE]
avError(error) == [result |-> EmptyStore, inplace |-> EmptyStore, err |-> error, panic |-> FALSE]
avPanic == [result |-> EmptyStore, inplace |-> EmptyStore, err |-> nil, panic |-> TRUE]

\* if target.IsValid() && target.CanSet() { target.Set...(parsed) } else { result = ... }
avStore(target, node) ==
    IF target.valid /\ target.canSet THEN avInPlace(Scalar(node)) ELSE avResult(Scalar(node))

appendBool(typ, target, value, parsed) ==
    IF ~parsed.ok THEN avError(UnmarshalTypeError(value, typ))
    ELSE avStore(target, Node(typ, FALSE, 0, parsed.b, <<>>, <<>>))

appendInt(typ, target, value, parsed) ==
    IF ~parsed.ok THEN avError(UnmarshalTypeError(value, typ))
    ELSE avStore(target, IntNode(typ, parsed.n))

appendUint(typ, target, value, parsed) ==
    IF ~parsed.ok THEN avError(UnmarshalTypeError(value, typ))
    ELSE avStore(target, IntNode(typ, parsed.n))

appendFloat(typ, target, value, parsed) ==
    IF ~parsed.ok THEN avError(UnmarshalTypeError(value, typ))
    ELSE avStore(target, FloatNode(typ, parsed.f))

\* result = reflect.New(typ.Elem()); result.Elem().Set(elem) unless err
appendPtr(typ, elem) ==
    IF elem.panic THEN avPanic
    ELSE IF elem.err # nil THEN avError(elem.err)
    ELSE avResult(Install(New(typ), <<Deref>>, elem.result))

\* result = target, unwrapped when the target is an interface value, or
\* reflect.MakeSlice(typ, 0, 4) when there is none: the target is not valid,
\* or it is a nil interface (whose node has no dynamic type).  A nil slice, and
\* a nil map or pointer held by an interface, is taken as it is.
sliceOf(typ, target) ==
    IF target.valid /\ Kind(target.val[<<>>].t) # "Interface" THEN target.val[<<>>]
    ELSE Node(typ, FALSE, 0, FALSE, <<>>, <<>>)

\* reflect.Type.AssignableTo, for the types here: a value of type t may be
\* stored where a u is held when the two are one type, or u is interface {}
AssignableTo(t, u) == t = u \/ Kind(u) = "Interface"

\* a builder that puts each new value in front of the earlier ones
appendToFront(held, elem) ==
    IF Kind(held.t) # "Slice" THEN avPanic
    ELSE IF ~AssignableTo(elem[<<>>].t, Elem(held.t)) THEN avPanic
    ELSE avResult(Scalar([held EXCEPT !.isnil = FALSE,
                                      !.elems = <<elem[<<>>].str>> \o @]))

\* reflect.Append(result, next); it panics when result is no slice, and when
\* next is not assignable to the slice's element type
appendTo(held, elem) ==
    IF Kind(held.t) # "Slice" THEN avPanic
    ELSE IF ~AssignableTo(elem[<<>>].t, Elem(held.t)) THEN avPanic
    ELSE avResult(Scalar([held EXCEPT !.isnil = FALSE,
                                      !.elems = Append(@, elem[<<>>].str)]))

\* next, err = appendValue(typ.Elem(), next, value), then the append
appendSlice(typ, target, elem) ==
    IF elem.panic THEN avPanic
    ELSE IF elem.err # nil THEN avError(elem.err)
    ELSE IF elem.result = EmptyStore THEN avResult(EmptyStore)
    ELSE appendTo(sliceOf(typ, target), elem.result)

RECURSIVE appendValue(_, _, _)

\* the switch typ.Kind() of appendValue
appendValueAs(typ, target, value) ==
    CASE Kind(typ) = "Bool" -> appendBool(typ, target, value, ParseBool(value))
      [] Kind(typ) \in {"Float32", "Float64"} ->
            appendFloat(typ, target, value, ParseFloat(value, Bits(typ)))
      [] Kind(typ) \in {"Int", "Int16", "Int32", "Int64"} ->
            appendInt(typ, target, value, ParseInt(value, Bits(typ)))
      [] Kind(typ) \in {"Uint", "Uint16", "Uint32", "Uint64"} ->
            appendUint(typ, target, value, ParseUint(value, Bits(typ)))
      [] Kind(typ) = "Ptr" -> appendPtr(typ, appendValue(Elem(typ), NoValue, value))
      [] Kind(typ) = "String" ->
            avResult(Scalar(Node(typ, FALSE, 0, FALSE, value, <<>>)))
      [] Kind(typ) = "Slice" ->
            appendSlice(typ, target, appendValue(Elem(typ), NoValue, value))
      [] OTHER -> avError(UnmarshalTypeError(value, typ))

\* if typ.Kind() == reflect.Interface { typ = reflect.TypeOf([]string{}) }
orStrings(typ) == IF Kind(typ) = "Interface" THEN "[]string" ELSE typ

\* Append value to target or return a new value of type typ.
appendValue(typ, target, value) ==
    appendValueAs(orStrings(IF target.valid THEN target.type ELSE typ), target, value)

\* The loop over the fields of addValueToSection: the last field whose tag is
\* name, 0 when there is none (the source's -1).
RECURSIVE leafField(_, _, _, _)
leafField(fields, i, name, fi) ==
    IF i > Len(fields) THEN fi
    ELSE IF fields[i].Tag = name \/ TagGet(fields[i].Tag) = name
         THEN leafField(fields, i + 1, name, i)
         ELSE leafField(fields, i + 1, name, fi)

bOk(m) == [mem |-> m, err |-> nil, panic |-> FALSE]
bErr(m, error) == [mem |-> m, err |-> error, panic |-> FALSE]
bPanic(m) == [mem |-> m, err |-> nil, panic |-> TRUE]

\* section.MapIndex(key), or a struct field, as appendValue's target
existing(m, slot, type, canSet) ==
    IF slot \in DOMAIN m THEN Value(type, canSet, ValueAt(m, slot)) ELSE NoValue

\* the map case after appendValue: if adjusted.IsValid() { SetMapIndex }
\* (SetMapIndex on a nil map panics)
setMapIndex(m, section, entry, av) ==
    IF av.panic THEN bPanic(m)
    ELSE IF av.err # nil THEN bErr(m, av.err)
    ELSE IF av.result = EmptyStore THEN bOk(m)
    ELSE IF m[section].isnil THEN bPanic(m)
    ELSE bOk(Install(m, entry, av.result))

\* reflect.Value.CanAddr of the value at path p: it was reached through a
\* pointer, and from there on through struct fields only.  A map entry, and so
\* a struct an interface holds by value, is not addressable.
Addressable(p) ==
    \E i \in 1..Len(p) : p[i] = Deref /\ \A j \in (i + 1)..Len(p) : p[j].k = "field"

\* the struct case after appendValue: the field was set in place, or
\* existing.Set(adjusted), which panics on a field that is not addressable
setField(m, slot, av) ==
    IF av.panic THEN bPanic(m)
    ELSE IF av.err # nil THEN bErr(m, av.err)
    ELSE IF av.inplace # EmptyStore THEN bOk(Install(m, slot, av.inplace))
    ELSE IF av.result = EmptyStore THEN bOk(m)
    ELSE IF ~Addressable(slot) THEN bPanic(m)
    ELSE bOk(Install(m, slot, av.result))

addValueToMap(m, section, st, entry, value) ==
    setMapIndex(m, section, entry,
                appendValue(Elem(st), existing(m, entry, Elem(st), FALSE), value))

addValueToField(m, slot, ft, value) ==
    setField(m, slot, appendValue(ft, existing(m, slot, ft, Addressable(slot)), value))

\* a builder that passes over a setting of no field
addValueToStructIgnore(m, section, st, name, value, fi) ==
    IF fi = 0 THEN bOk(m)
    ELSE addValueToField(m, Append(section, Field(fi)), Fields(st)[fi].Type, value)

addValueToStruct(m, section, st, name, value, fi) ==
    IF fi = 0 THEN bErr(m, UnmarshalFieldError(name, st))
    ELSE addValueToField(m, Append(section, Field(fi)), Fields(st)[fi].Type, value)

\* the switch section.Type().Kind() of addValueToSection
addValueToKind(m, section, st, name, value) ==
    CASE Kind(st) = "Map" ->
            IF Kind(KeyType(st)) # "String"
            THEN bErr(m, UnmarshalTypeError(ValueForKey(name), st))
            ELSE addValueToMap(m, section, st, Append(section, MapKey(name)), value)
      [] Kind(st) = "Struct" ->
            addValueToStruct(m, section, st, name, value,
                             leafField(Fields(st), 1, name, 0))
      \* section.NumField() of a pointer
      [] Kind(st) = "Ptr" -> bPanic(m)
      [] OTHER -> bErr(m, UnmarshalFieldError(name, st))

addValueToSection(m, section, name, value) ==
    addValueToKind(m, section, m[section].t, name, value)

\* The loop over the fields of getSubSection: [fi, squash] after field i on.
\* A field tagged name takes fi; a field tagged * takes it only while no
\* field has, and sets squash.  fi = 0 is the source's -1.
RECURSIVE sectionField(_, _, _, _)
sectionField(fields, i, name, acc) ==
    IF i > Len(fields) THEN acc
    ELSE IF fields[i].Tag = name \/ TagGet(fields[i].Tag) = name
         THEN sectionField(fields, i + 1, name, [acc EXCEPT !.fi = i])
    ELSE IF (fields[i].Tag = StarTag \/ TagGet(fields[i].Tag) = StarTag) /\ acc.fi = 0
         THEN sectionField(fields, i + 1, name, [fi |-> i, squash |-> TRUE])
    ELSE sectionField(fields, i + 1, name, acc)

sOk(m, sub) == [mem |-> m, sub |-> sub, err |-> nil, panic |-> FALSE]
sErr(m, error) == [mem |-> m, sub |-> <<>>, err |-> error, panic |-> FALSE]
sPanic(m) == [mem |-> m, sub |-> <<>>, err |-> nil, panic |-> TRUE]

\* section.SetMapIndex(reflect.ValueOf(name), sub): it panics on a nil map
setSubSection(m, section, sub, frag, at) ==
    IF m[section].isnil THEN sPanic(m) ELSE sOk(Install(m, sub, frag), at)

\* getSubSection on a map section of type st; sub is section.MapIndex(name),
\* valid when it is there
getSubSectionOf(m, section, st, name, sub, valid) ==
    \* sub.IsNil() of an interface value: it holds nothing, not even a nil map
    CASE Kind(Elem(st)) = "Interface" ->
            IF ~valid \/ Kind(m[sub].t) = "Interface"
            THEN setSubSection(m, section, sub, Scalar(Made("map[string]interface {}")), sub)
            ELSE sOk(m, sub)
      [] Kind(Elem(st)) = "Ptr" ->
            IF ~valid THEN setSubSection(m, section, sub, New(Elem(st)), Append(sub, Deref))
            \* sub.Set on the unaddressable value MapIndex returned
            ELSE IF m[sub].isnil THEN sPanic(m)
            ELSE sOk(m, Append(sub, Deref))
      [] Kind(Elem(st)) = "Map" ->
            IF Kind(KeyType(Elem(st))) # "String"
            THEN sErr(m, UnmarshalTypeError(Subsection(name), Elem(st)))
            ELSE IF ~valid \/ m[sub].isnil
            THEN setSubSection(m, section, sub, Scalar(Made(Elem(st))), sub)
            ELSE sOk(m, sub)
      [] OTHER -> sErr(m, UnmarshalTypeError(Subsection(name), Elem(st)))

\* getSubSection on a section of kind Map: section.MapIndex(reflect.ValueOf(name))
\* panics when the map's keys are no strings
getSubSectionMap(m, section, name) ==
    IF Kind(KeyType(m[section].t)) # "String" THEN sPanic(m)
    ELSE getSubSectionOf(m, section, m[section].t, name, Append(section, MapKey(name)),
                         Append(section, MapKey(name)) \in DOMAIN m)

\* field.Set of a nil field that is not addressable: it panics
CannotSet(m, field) == m[field].isnil /\ ~Addressable(field)

\* if field.IsNil() { field.Set(reflect.MakeMap(field.Type())) }
madeField(m, field, ft) ==
    IF m[field].isnil THEN Install(m, field, Scalar(Made(ft))) ELSE m

\* a builder that makes a new record each time the section is entered
newFieldAlways(m, field, ft) == Install(m, field, New(ft))

\* if field.IsNil() { field.Set(reflect.New(field.Type().Elem())) }
newField(m, field, ft) ==
    IF m[field].isnil THEN Install(m, field, New(ft)) ELSE m

\* a builder that takes the map tagged * for the section itself
getSubSectionFieldUnsquashed(m, field, ft, name, squash) ==
    CASE Kind(ft) = "Map" ->
            IF Kind(KeyType(ft)) # "String"
            THEN sErr(m, UnmarshalTypeError(Subsection(name), ft))
            ELSE IF CannotSet(m, field) THEN sPanic(m)
            ELSE sOk(madeField(m, field, ft), field)
      [] Kind(ft) = "Ptr" ->
            IF CannotSet(m, field) THEN sPanic(m)
            ELSE sOk(newField(m, field, ft), Append(field, Deref))
      [] OTHER -> sErr(m, errorString(ft))

\* getSubSection on a struct, once the field is found
getSubSectionField(m, field, ft, name, squash) ==
    CASE Kind(ft) = "Map" ->
            IF Kind(KeyType(ft)) # "String"
            THEN sErr(m, UnmarshalTypeError(Subsection(name), ft))
            ELSE IF CannotSet(m, field) THEN sPanic(m)
            ELSE IF ~squash THEN sOk(madeField(m, field, ft), field)
            ELSE getSubSectionMap(madeField(m, field, ft), field, name)
      [] Kind(ft) = "Ptr" ->
            IF CannotSet(m, field) THEN sPanic(m)
            ELSE sOk(newField(m, field, ft), Append(field, Deref))
      [] OTHER -> sErr(m, errorString(ft))

getSubSectionStruct(m, section, st, name, sf) ==
    IF sf.fi = 0 THEN sErr(m, UnmarshalFieldError(name, st))
    ELSE getSubSectionField(m, Append(section, Field(sf.fi)), Fields(st)[sf.fi].Type,
                            name, sf.squash)

getSubSectionKind(m, section, st, name) ==
    CASE Kind(st) = "Map" -> getSubSectionMap(m, section, name)
      [] Kind(st) = "Struct" ->
            getSubSectionStruct(m, section, st, name,
                sectionField(Fields(st), 1, name, [fi |-> 0, squash |-> FALSE]))
      [] OTHER -> sErr(m, InvalidUnmarshalError(st))

getSubSection(m, section, name) == getSubSectionKind(m, section, m[section].t, name)

cResult(b, m, error, panic) == [refs |-> b, mem |-> m, err |-> error, panic |-> panic]

\* case addValue
consumeValue(b, av) == cResult(b, av.mem, av.err, av.panic)

\* case startSection: b.refs = append(b.refs, next) unless err
consumeSection(b, gs) ==
    cResult(IF gs.err = nil /\ ~gs.panic THEN Append(b, gs.sub) ELSE b,
            gs.mem, gs.err, gs.panic)

\* builder.consume: the new stack and target, the error returned, a panic
consume(b, m, ev) ==
    IF Len(b) = 0 THEN cResult(b, m, nil, TRUE)
    ELSE CASE ev.Type = addValue ->
                consumeValue(b, addValueToSection(m, b[Len(b)], ev.Name, ev.Value))
           [] ev.Type = endSection -> cResult(SubSeq(b, 1, Len(b) - 1), m, nil, FALSE)
           [] ev.Type = startSection ->
                consumeSection(b, getSubSection(m, b[Len(b)], ev.Name))
           [] OTHER -> cResult(b, m, nil, TRUE)

\* newBuilder: the root of the stack for a value of type t, or the error
newBuilder(t, m) ==
    IF t = "nil" THEN [refs |-> <<>>, err |-> InvalidUnmarshalError("nil")]
    ELSE CASE Kind(t) = "Ptr" ->
                IF ~m[<<>>].isnil /\ Kind(Elem(t)) \in {"Map", "Struct"}
                THEN [refs |-> << <<Deref>> >>, err |-> nil]
                ELSE [refs |-> <<>>, err |-> InvalidUnmarshalError(t)]
           [] Kind(t) = "Map" ->
                IF Kind(KeyType(t)) = "String"
                THEN [refs |-> << <<>> >>, err |-> nil]
                ELSE [refs |-> <<>>, err |-> InvalidUnmarshalError(t)]
           [] OTHER -> [refs |-> <<>>, err |-> InvalidUnmarshalError(t)]

(***************************************************************************)
(* Decoder.Decode as a state machine: newBuilder, then next and consume in *)
(* turn until an error or the end of the input.                            *)
(***************************************************************************)
\* the Decoder's fields, as next reads them
decoder ==
    [r |-> r, chunk |-> chunk, eofEager |-> eofEager, buffer |-> buffer,
     prevDepth |-> prevDepth, lineno |-> lineno, queue |-> queue]

\* if builder, fault = newBuilder(v); fault != nil { return fault }
DecodeStarted(nb) ==
    /\ refs' = nb.refs
    /\ ret' = nb.err
    /\ pc' = IF nb.err # nil THEN "done" ELSE "next"

DecodeStart ==
    /\ pc = "newBuilder"
    /\ DecodeStarted(newBuilder(rt, mem))
    /\ UNCHANGED <<doc, rt, r, chunk, eofEager, buffer, prevDepth, lineno, queue,
                   mem, e, err, consumed, src, w>>

\* e, err := d.next(), and what Decode does when e is nil: break at io.EOF,
\* return err otherwise
DecoderReturned(n) ==
    /\ r' = n.d.r
    /\ buffer' = n.d.buffer
    /\ prevDepth' = n.d.prevDepth
    /\ lineno' = n.d.lineno
    /\ queue' = n.d.queue
    /\ e' = n.e
    /\ err' = n.err
    /\ pc' = IF n.panic THEN "panic"
             ELSE IF n.e # NoEvent THEN "consume"
             ELSE IF n.err = nil THEN "next"
             ELSE "done"
    /\ ret' = IF n.panic \/ n.e # NoEvent \/ n.err = EOF THEN ret ELSE n.err

DecoderNext ==
    /\ pc = "next"
    /\ DecoderReturned(next(decoder))
    /\ UNCHANGED <<doc, rt, chunk, eofEager, refs, mem, consumed, src, w>>

\* a Decode that keeps the first error of the builder and goes on
BuilderConsumedLenient(c) ==
    /\ consumed' = Append(consumed, e)
    /\ refs' = c.refs
    /\ mem' = c.mem
    /\ pc' = IF c.panic THEN "panic"
             ELSE IF err # nil THEN "done"
             ELSE "next"
    /\ ret' = IF c.panic \/ ret # nil THEN ret
              ELSE IF c.err # nil THEN c.err
              ELSE IF err = EOF THEN ret
              ELSE err

\* err2 := builder.consume(e), and what Decode does after it: break with
\* fault = err2, else break at io.EOF, else go on
BuilderConsumed(c) ==
    /\ consumed' = Append(consumed, e)
    /\ refs' = c.refs
    /\ mem' = c.mem
    /\ pc' = IF c.panic THEN "panic"
             ELSE IF c.err # nil \/ err # nil THEN "done"
             ELSE "next"
    /\ ret' = IF c.panic THEN ret
              ELSE IF c.err # nil THEN c.err
              ELSE IF err = EOF THEN ret
              ELSE err

BuilderConsume ==
    /\ pc = "consume"
    /\ BuilderConsumed(consume(refs, mem, e))
    /\ UNCHANGED <<doc, rt, r, chunk, eofEager, buffer, prevDepth, lineno, queue,
                   e, err, src, w>>

Next == DecodeStart \/ DecoderNext \/ BuilderConsume

(***************************************************************************)
(* The io.Writer of an Encoder: the bytes written to it so far, and how    *)
(* many more calls of Write succeed (NeverFails: all of them).  A writer   *)
(* that has failed once fails ever after; late counts the calls of Write   *)
(* made after the first failure.                                           *)
(***************************************************************************)
NeverFails == 0 - 1

\* &bytes.Buffer{}
Buffer == [out |-> <<>>, left |-> NeverFails, failed |-> FALSE, late |-> 0]

\* a writer whose Write returns an error from call k + 1 on
FailingAfter(k) == [Buffer EXCEPT !.left = k]

\* w.Write(bytes) returns an error
WriteFails(writer) == writer.left = 0

\* the writer after w.Write(bytes)
Write(writer, bytes) ==
    IF WriteFails(writer)
    THEN [writer EXCEPT !.late = @ + (IF writer.failed THEN 1 ELSE 0), !.failed = TRUE]
    ELSE [writer EXCEPT !.out = @ \o bytes,
                        !.left = IF @ = NeverFails THEN @ ELSE @ - 1]

(***************************************************************************)
(* Inputs.                                                                 *)
(***************************************************************************)
\* the bytes of a document: its lines, each but the last followed by the
\* terminator, the last one too when final
RECURSIVE Join(_, _, _)
Join(lines, eol, final) ==
    IF lines = <<>> THEN <<>>
    ELSE IF Len(lines) = 1 THEN Head(lines) \o (IF final THEN eol ELSE <<>>)
    ELSE Head(lines) \o eol \o Join(Tail(lines), eol, final)

Bytes(d) == Join(d.lines, d.eol, d.final)

\* the sequences of at most n elements of set
SeqsUpTo(set, n) == UNION {[1..k -> set] : k \in 0..n}

EOLs == {<<LF>>, <<CR>>, <<CR, LF>>, <<LF, CR>>}

\* the value v handed to Decode, by its type: a made map, or a pointer to a
\* zero record
Target(t) ==
    CASE t = "nil" -> Scalar(Zero("nil"))
      [] Kind(t) = "Ptr" -> New(t)
      [] Kind(t) = "Map" -> Scalar(Made(t))
      [] OTHER -> Scalar(Zero(t))

\* Decode(v) on a fresh Decoder reading the bytes of d from a bytes.Reader
Start(d, t) ==
    /\ doc = d
    /\ rt = t
    /\ r = Bytes(d)
    /\ chunk = ReadSize
    /\ eofEager = FALSE
    /\ buffer = <<>>
    /\ prevDepth = 0
    /\ lineno = 0
    /\ queue = <<>>
    /\ refs = <<>>
    /\ mem = Target(t)
    /\ e = NoEvent
    /\ err = nil
    /\ ret = nil
    /\ pc = "newBuilder"
    /\ consumed = <<>>
    /\ src = EmptyStore
    /\ w = Buffer

\* a setting of ReadSize - 1 bytes: as the first line, its terminator starts
\* at the last byte of the first Read
LongLine == <<"b", " ", "=", " ">> \o [i \in 1..(ReadSize - 5) |-> "x"]

\* The lines of the scanner's documents: section headers and settings at
\* depth 0 and 1, an empty line, a comment, and two lines of no grammar.
ScanLineSet ==
    { <<>>,
      <<"#", " ", "c">>,
      <<"a">>,
      <<" ", " ", " ", " ", "b">>,
      <<"b", " ", "=", " ", "1">>,
      <<" ", " ", " ", " ", "b", " ", "=", " ", "2">>,
      <<"a", " ", "b">>,
      <<" ", " ", "b", " ", "=", " ", "1">>,
      LongLine }

\* Unmarshal(src, dst) with dst a map[string]interface{}, src any document of
\* at most MaxLines of these lines, under each of the four terminators, the
\* last line terminated or not
Init ==
    \E lines \in SeqsUpTo(ScanLineSet, MaxLines), eol \in EOLs, final \in BOOLEAN :
        Start([lines |-> lines, eol |-> eol, final |-> final], "map[string]interface {}")

Spec == Init /\ [][Next]_vars

(***************************************************************************)
(* Unmarshal as a function: Decode run to its end on the bytes src, from   *)
(* the target m of type t.                                                 *)
(***************************************************************************)
\* NewDecoder(bytes.NewReader(src))
NewDecoder(rd) ==
    [r |-> rd, chunk |-> ReadSize, eofEager |-> FALSE, buffer |-> <<>>,
     prevDepth |-> 0, lineno |-> 0, queue |-> <<>>]

\* what Decode leaves: the events it consumed, the error it returned, the target
decoded(log, error, m, panic) ==
    [consumed |-> log, ret |-> error, mem |-> m, panic |-> panic]

RECURSIVE decodeLoop(_, _, _, _)

\* after builder.consume(e): break on its error, break at io.EOF, return err
decodeConsumed(n, log, c) ==
    IF c.panic THEN decoded(log, nil, c.mem, TRUE)
    ELSE IF c.err # nil THEN decoded(log, c.err, c.mem, FALSE)
    ELSE IF n.err = EOF THEN decoded(log, nil, c.mem, FALSE)
    ELSE IF n.err # nil THEN decoded(log, n.err, c.mem, FALSE)
    ELSE decodeLoop(n.d, c.refs, c.mem, log)

\* after d.next()
decodeNext(b, m, log, n) ==
    IF n.panic THEN decoded(log, nil, m, TRUE)
    ELSE IF n.e # NoEvent THEN decodeConsumed(n, Append(log, n.e), consume(b, m, n.e))
    ELSE IF n.err = EOF THEN decoded(log, nil, m, FALSE)
    ELSE IF n.err # nil THEN decoded(log, n.err, m, FALSE)
    ELSE decodeLoop(n.d, b, m, log)

decodeLoop(d, b, m, log) == decodeNext(b, m, log, next(d))

decodeBuilt(d, nb, m) ==
    IF nb.err # nil THEN decoded(<<>>, nb.err, m, FALSE)
    ELSE decodeLoop(d, nb.refs, m, <<>>)

Unmarshal(bytes, t, m) == decodeBuilt(NewDecoder(bytes), newBuilder(t, m), m)

(***************************************************************************)
(* The documents' own reading, for the properties below: a line is blank   *)
(* or a comment, or it is a header or a setting at the depth its           *)
(* indentation spells.                                                     *)
(***************************************************************************)
\* blank (empty, or spaces and tabs only) or a comment (# first)
IsSkipped(line) == Trim(line) = <<>> \/ Trim(line)[1] = HASH

DataLines(lines) == SelectSeq(lines, LAMBDA l : ~IsSkipped(l))

\* the line's depth: its leading spaces by four
DepthOf(match) == Len(match.indent) \div 4

\* the line's own event
OwnEvent(match) ==
    IF match.hasvalue # <<>> THEN parseEvent(addValue, match.key, match.value)
    ELSE parseEvent(startSection, match.key, <<>>)

\* p - d ExitSection events when the line at depth d follows depth p > d,
\* then the line's own event
DedentEvents(match, p) ==
    (IF p > DepthOf(match) THEN Exits(p - DepthOf(match)) ELSE <<>>) \o <<OwnEvent(match)>>

\* the depth after the line: d for a setting, d + 1 for a header (from p when
\* the line is deeper than p)
DepthAfter(match, p) ==
    Min(p, DepthOf(match)) + (IF match.hasvalue # <<>> THEN 0 ELSE 1)

\* the events and the last depth of a run of data lines from depth p, up to
\* the first line of no grammar
RECURSIVE Sequenced(_, _, _)
SequencedLine(lines, p, acc, match) ==
    IF ~match.ok THEN [events |-> acc, depth |-> p]
    ELSE Sequenced(Tail(lines), DepthAfter(match, p), acc \o DedentEvents(match, p))

Sequenced(lines, p, acc) ==
    IF lines = <<>> THEN [events |-> acc, depth |-> p]
    ELSE SequencedLine(lines, p, acc, FindSubmatch(Head(lines)))

\* C1: every matched line at depth d below the previous depth p is turned into
\* exactly p - d ExitSection events followed by its own event, the builder
\* consumes them in that order with nothing in between, and the previous depth
\* is then d (setting) or d + 1 (header): when Decode has returned without an
\* error, what the builder consumed is the sequence the lines spell, and
\* prevDepth is the depth after the last line.
C1_DedentAccounting ==
    (pc = "done" /\ ret = nil) =>
        /\ consumed = Sequenced(DataLines(doc.lines), 0, <<>>).events
        /\ prevDepth = Sequenced(DataLines(doc.lines), 0, <<>>).depth

\* the same when the last line of the document is terminated
C1_Terminated ==
    (pc = "done" /\ ret = nil /\ doc.final) =>
        /\ consumed = Sequenced(DataLines(doc.lines), 0, <<>>).events
        /\ prevDepth = Sequenced(DataLines(doc.lines), 0, <<>>).depth

\* the document without its blank and comment lines
Stripped(d) == [d EXCEPT !.lines = DataLines(d.lines)]

\* Decode consumed the events u.consumed and returned an error as u did
SameOutcome(u) == consumed = u.consumed /\ (ret = nil) = (u.ret = nil)

\* C2: blank lines and comment lines produce no event and no error wherever
\* they are, the last line with or without its terminator included: when
\* Decode has returned, it has consumed exactly the events of the same
\* document with those lines removed, and has failed only if that one fails.
C2_SkippedLines ==
    pc = "done" => SameOutcome(Unmarshal(Bytes(Stripped(doc)), rt, Target(rt)))

\* the same for the documents whose last line is neither blank nor a comment,
\* and, unless it is terminated, follows no blank or comment line
C2_SkippedInside ==
    (/\ pc = "done"
     /\ doc.lines # <<>>
     /\ ~IsSkipped(doc.lines[Len(doc.lines)])
     /\ doc.final \/ \A i \in 1..(Len(doc.lines) - 1) : ~IsSkipped(doc.lines[i]))
        => SameOutcome(Unmarshal(Bytes(Stripped(doc)), rt, Target(rt)))

\* the first line that is neither skipped nor of either grammar, 0 when none
FirstBad(lines) ==
    IF \A i \in 1..Len(lines) : IsSkipped(lines[i]) \/ FindSubmatch(lines[i]).ok THEN 0
    ELSE CHOOSE i \in 1..Len(lines) :
            /\ ~IsSkipped(lines[i]) /\ ~FindSubmatch(lines[i]).ok
            /\ \A j \in 1..(i - 1) : IsSkipped(lines[j]) \/ FindSubmatch(lines[j]).ok

\* Decode failed on line k: the syntax error carries k, and the events consumed
\* are those of the lines before it
FailedAt(k) ==
    /\ ret = SyntaxError(k)
    /\ consumed = Sequenced(DataLines(SubSeq(doc.lines, 1, k - 1)), 0, <<>>).events

\* C3: when a line that is neither blank nor a comment matches neither
\* grammar, Decode returns a SyntaxError whose Line is the 1-based number of
\* that line among the physical lines, blank and comment lines counted, and no
\* event is produced for the line (the builder having accepted the events of
\* the lines before it).
C3_SyntaxErrorLine ==
    (pc = "done" /\ FirstBad(doc.lines) > 0 /\ ret.kind \in {"nil", "SyntaxError"})
        => FailedAt(FirstBad(doc.lines))

\* the same when no line terminator is cut by the end of a Read
C3_ShortLines ==
    (/\ pc = "done" /\ FirstBad(doc.lines) > 0 /\ ret.kind \in {"nil", "SyntaxError"}
     /\ \A i \in 1..Len(doc.lines) : doc.lines[i] # LongLine)
        => FailedAt(FirstBad(doc.lines))

\* the document is two settings, short enough for one Read
TwoSettings(d) ==
    /\ Len(d.lines) = 2
    /\ Len(Bytes(d)) < ReadSize
    /\ \A i \in 1..2 : FindSubmatch(d.lines[i]).ok /\ FindSubmatch(d.lines[i]).hasvalue # <<>>

\* C4: for two settings separated by \n, \r, \r\n or \n\r, the last one
\* terminated or not, the scanner cuts the same two lines: Decode consumes the
\* LeafValue of the first and then of the second and returns no error; the
\* two-byte terminators make no extra line (the line counter is 2, and 3 after
\* the round that meets the end behind a terminated last line) and leave no
\* terminator byte in a value.
C4_LineTerminators ==
    (pc = "done" /\ TwoSettings(doc)) =>
        /\ ret = nil
        /\ consumed = <<OwnEvent(FindSubmatch(doc.lines[1])),
                        OwnEvent(FindSubmatch(doc.lines[2]))>>
        /\ lineno = IF doc.final THEN 3 ELSE 2

\* two different settings under \r\n, decoded
C4_Witness ==
    /\ pc = "done"
    /\ TwoSettings(doc)
    /\ doc.eol = <<CR, LF>>
    /\ doc.lines[1] # doc.lines[2]
    /\ Len(consumed) = 2

(***************************************************************************)
(* Decoding into typed and dynamic targets.                                *)
(***************************************************************************)
\* The lines of the builder's documents: the headers a (Root.A, a pointer
\* field) and m (no field of Root: an entry of the map Root.M tagged *),
\* settings of Sub's fields b ([]string) and n (int16), one of them no
\* number, a setting of no field, and a line of no grammar.
BuildLineSet ==
    { <<"a">>,
      <<"m">>,
      <<" ", " ", " ", " ", "b", " ", "=", " ", "1">>,
      <<" ", " ", " ", " ", "b", " ", "=", " ", "2">>,
      <<" ", " ", " ", " ", "n", " ", "=", " ", "7">>,
      <<" ", " ", " ", " ", "n", " ", "=", " ", "x">>,
      <<" ", " ", " ", " ", "z", " ", "=", " ", "1">>,
      <<"a", " ", "b">> }

\* the values handed to Decode, by type: a pointer to a zero Root, the two
\* dynamic mappings, and the values newBuilder is to refuse
BuildTargets ==
    {"*Root", "map[string]interface {}", "map[string][]string",
     "nil", "int", "*int", "map[int]bool", "*map[int]bool"}

\* Unmarshal(src, dst) with src at most MaxBuildLines of these lines, each
\* terminated by \n
InitBuild ==
    \E lines \in SeqsUpTo(BuildLineSet, MaxBuildLines), t \in BuildTargets :
        Start([lines |-> lines, eol |-> <<LF>>, final |-> TRUE], t)

SpecBuild == InitBuild /\ [][Next]_vars

\* the section events are written to: the top of the builder's stack
top == refs[Len(refs)]

DynamicMaps == {"map[string]interface {}", "map[string][]string"}

\* builder.consume is about to take the LeafValue e for a dynamic mapping in
\* which e's key is unbound or bound to a sequence of strings
LeafIntoDynamic ==
    /\ pc = "consume"
    /\ e.Type = addValue
    /\ mem[top].t \in DynamicMaps
    /\ Append(top, MapKey(e.Name)) \in DOMAIN mem
            => Kind(mem[Append(top, MapKey(e.Name))].t) = "Slice"

\* the strings bound at slot, none when it is unbound
Bound(slot) == IF slot \in DOMAIN mem THEN mem[slot].elems ELSE <<>>

\* after the step the slot holds what it held and then value; nothing else of
\* the target has changed, and Decode has not failed
Accumulated(slot, value) ==
    /\ pc' # "panic"
    /\ ret' = nil
    /\ DOMAIN mem' = DOMAIN mem \cup {slot}
    /\ mem'[slot].elems = Append(Bound(slot), value)
    /\ Kind(mem'[slot].t) = "Slice"
    /\ \A q \in DOMAIN mem \ {slot} : mem'[q] = mem[q]

\* C5: repeated keys accumulate in their order: each LeafValue(k, v) consumed
\* for a section of a dynamic mapping (map[string]interface{} or
\* map[string][]string) appends v to the sequence bound to k there, a new
\* sequence when k was unbound, and leaves every other key as it was; so after
\* LeafValue(k, v1) ... LeafValue(k, vn) the section binds k to [v1, ..., vn].
C5_RepeatedKeys ==
    [][LeafIntoDynamic => Accumulated(Append(top, MapKey(e.Name)), e.Value)]_vars

\* three settings of b in section a of a map[string]interface{}, decoded
C5_Witness ==
    /\ pc = "done"
    /\ rt = "map[string]interface {}"
    /\ <<MapKey(<<"a">>), MapKey(<<"b">>)>> \in DOMAIN mem
    /\ mem[<<MapKey(<<"a">>), MapKey(<<"b">>)>>].elems = << <<"1">>, <<"2">>, <<"1">> >>

\* the index of the field of struct type st tagged *, 0 when none
RECURSIVE SquashField(_, _)
SquashField(st, i) ==
    IF i > Len(Fields(st)) THEN 0
    ELSE IF Fields(st)[i].Tag = StarTag \/ TagGet(Fields(st)[i].Tag) = StarTag THEN i
    ELSE SquashField(st, i + 1)

\* no field of st is tagged name
Undeclared(st, name) ==
    \A i \in 1..Len(Fields(st)) :
        Fields(st)[i].Tag # name /\ TagGet(Fields(st)[i].Tag) # name

\* builder.consume is about to take the EnterSection e for a record with a
\* squash field, e's name that of no declared field
EnterUndeclared ==
    /\ pc = "consume"
    /\ e.Type = startSection
    /\ Kind(mem[top].t) = "Struct"
    /\ SquashField(mem[top].t, 1) > 0
    /\ Undeclared(mem[top].t, e.Name)

\* the entry of the squash map for name, as a path
SquashEntry(section, name) ==
    section \o <<Field(SquashField(mem[section].t, 1)), MapKey(name), Deref>>

\* after the step the entry is the builder's write target: found as it was
\* when it was there, a new zero record otherwise, with no level named * on
\* the way
Squashed(entry) ==
    /\ pc' # "panic"
    /\ ret' = nil
    /\ refs' = Append(refs, entry)
    /\ entry \in DOMAIN mem'
    /\ Kind(mem'[entry].t) = "Struct"
    /\ entry \in DOMAIN mem => mem' = mem
    /\ \A q \in DOMAIN mem' : \A i \in 1..Len(q) : q[i] # MapKey(StarTag)

\* C6: squash routing: EnterSection(name) for a record that has a squash field
\* (a map field tagged *), name matching no other declared field, looks up or
\* creates the entry name of that map and pushes the entry as the write
\* target; no level named by the squash field's own tag comes in between.
C6_SquashRouting ==
    [][EnterUndeclared => Squashed(SquashEntry(top, e.Name))]_vars

\* a Root decoded with a setting of b inside the squashed section m
C6_Witness ==
    /\ pc = "done"
    /\ rt = "*Root"
    /\ <<Deref, Field(2), MapKey(<<"m">>), Deref, Field(1)>> \in DOMAIN mem
    /\ mem[<<Deref, Field(2), MapKey(<<"m">>), Deref, Field(1)>>].elems = << <<"1">> >>

\* a string-keyed map, or a reference to a struct or to a string-keyed map
Decodable(t) ==
    \/ Kind(t) = "Map" /\ Kind(KeyType(t)) = "String"
    \/ Kind(t) = "Ptr" /\ Kind(Elem(t)) = "Struct"
    \/ Kind(t) = "Ptr" /\ Kind(Elem(t)) = "Map" /\ Kind(KeyType(Elem(t))) = "String"

\* Decode has returned an InvalidUnmarshalError, with no byte read, no event
\* consumed and the target as it was handed in
Refused ==
    /\ pc = "done"
    /\ ret.kind = "InvalidUnmarshalError"
    /\ r = Bytes(doc)
    /\ consumed = <<>>
    /\ mem = Target(rt)

\* C7: Decode called with a target that is not a string-keyed map or a
\* reference to a struct or to a string-keyed map returns an
\* InvalidUnmarshalError before any event is consumed and before the target is
\* changed.
C7_InvalidTarget == (~Decodable(rt) /\ pc # "newBuilder") => Refused

\* the same for nil, an int, a pointer to an int and a map keyed by ints
C7_Listed ==
    (rt \in {"nil", "int", "*int", "map[int]bool"} /\ pc # "newBuilder") => Refused

\* builder.consume over the events evs in turn, up to the first that fails:
\* the target then, the error, and the number of events taken
RECURSIVE Replay(_, _, _, _)
Replayed(b, evs, n, c) ==
    IF c.err # nil \/ c.panic THEN [mem |-> c.mem, err |-> c.err, taken |-> n + 1]
    ELSE Replay(c.refs, c.mem, Tail(evs), n + 1)

Replay(b, m, evs, n) ==
    IF evs = <<>> THEN [mem |-> m, err |-> nil, taken |-> n]
    ELSE Replayed(b, evs, n, consume(b, m, Head(evs)))

\* what Decode has left is what the events it consumed make of the target,
\* the last of them failing with error or, when error is nil, none of them
StoppedAt(rp, error) ==
    /\ rp.taken = Len(consumed)
    /\ rp.err = error
    /\ mem = rp.mem

\* C9: fail-fast decoding: as soon as the builder returns an error for an
\* event, or the scanner a syntax error, Decode stops: the error returned is
\* that first error, no later event is consumed, the target holds what the
\* events before the failure made of it and nothing of a later line.
C9_FailFast ==
    (pc = "done" /\ ret # nil /\ newBuilder(rt, Target(rt)).err = nil) =>
        IF ret.kind = "SyntaxError"
        THEN /\ ret.Line = FirstBad(doc.lines)
             /\ consumed = Sequenced(SubSeq(doc.lines, 1, ret.Line - 1), 0, <<>>).events
             /\ StoppedAt(Replay(newBuilder(rt, Target(rt)).refs, Target(rt), consumed, 0), nil)
        ELSE StoppedAt(Replay(newBuilder(rt, Target(rt)).refs, Target(rt), consumed, 0), ret)

\* a Root whose section a took b = 1, then failed on n = x with a line left
C9_Witness ==
    /\ pc = "done"
    /\ rt = "*Root"
    /\ ret.kind = "UnmarshalTypeError"
    /\ Len(consumed) = 3
    /\ Len(doc.lines) = 4
    /\ <<Deref, Field(1), Deref, Field(1)>> \in DOMAIN mem
    /\ mem[<<Deref, Field(1), Deref, Field(1)>>].elems = << <<"1">> >>

\* the child of section the EnterSection of name reopens: the map bound to
\* name in a dynamic mapping, the record bound to name in the map tagged *,
\* the record a pointer field tagged name points to; <<>> when there is none
FieldChild(section, i) == section \o <<Field(i), Deref>>

StructChild(section, st, name) ==
    IF ~Undeclared(st, name)
    THEN (IF Kind(Fields(st)[leafField(Fields(st), 1, name, 0)].Type) = "Ptr"
          THEN FieldChild(section, leafField(Fields(st), 1, name, 0)) ELSE <<>>)
    ELSE IF SquashField(st, 1) > 0 THEN SquashEntry(section, name)
    ELSE <<>>

Child(section, name) ==
    CASE Kind(mem[section].t) = "Map" -> Append(section, MapKey(name))
      [] Kind(mem[section].t) = "Struct" -> StructChild(section, mem[section].t, name)
      [] OTHER -> <<>>

\* builder.consume is about to take an EnterSection whose child was entered
\* before: it is there, a map or a record
Reentering ==
    /\ pc = "consume"
    /\ e.Type = startSection
    /\ Child(top, e.Name) \in DOMAIN mem
    /\ Kind(mem[Child(top, e.Name)].t) \in {"Map", "Struct"}
    /\ ~mem[Child(top, e.Name)].isnil

\* C10: reopen-and-merge: EnterSection(name) for a section entered earlier
\* under the same parent (an entry of a dynamic mapping, an entry of a map of
\* records, a pointer field) takes the existing child as the write target; it
\* neither fails nor replaces it, so the child keeps what the first occurrence
\* put there and takes what the second adds.
C10_ReopenMerge ==
    [][Reentering =>
        /\ pc' # "panic"
        /\ ret' = nil
        /\ mem' = mem
        /\ refs' = Append(refs, Child(top, e.Name))]_vars

\* section a of a Root entered twice, b = 1 the first time, b = 2 the second
C10_Witness ==
    /\ pc = "done"
    /\ rt = "*Root"
    /\ Len(doc.lines) = 4
    /\ Len(consumed) = 5
    /\ consumed[4] = parseEvent(startSection, <<"a">>, <<>>)
    /\ <<Deref, Field(1), Deref, Field(1)>> \in DOMAIN mem
    /\ mem[<<Deref, Field(1), Deref, Field(1)>>].elems = << <<"1">>, <<"2">> >>

(***************************************************************************)
(* The encoder: Encoder.encode and marshalProperty over a value of the     *)
(* store.  An Encoder is [w, indent, panic]: its writer, the indent, and   *)
(* whether it has panicked.                                               *)
(***************************************************************************)
\* NewEncoder(w)
NewEncoder(writer) == [w |-> writer, indent |-> <<>>, panic |-> FALSE]

\* e.w.Write([]byte(e.indent + name + " = " + value + e.br))
Encoder_addValue(enc, name, value) ==
    [enc EXCEPT !.w = Write(@, enc.indent \o name \o <<SP, EQUALS, SP>> \o value \o <<LF>>)]

\* e.w.Write([]byte(e.indent + name + e.br)), and e.indent += "    " unless
\* Write has returned an error
Encoder_startSection(enc, name) ==
    [enc EXCEPT !.w = Write(@, enc.indent \o name \o <<LF>>),
                !.indent = IF WriteFails(enc.w) THEN @ ELSE @ \o <<SP, SP, SP, SP>>]

\* e.indent = e.indent[:len(e.indent)-4], a panic when there are no four
Encoder_endSection(enc) ==
    IF Len(enc.indent) < 4 THEN [enc EXCEPT !.panic = TRUE]
    ELSE [enc EXCEPT !.indent = SubSeq(@, 1, Len(@) - 4)]

\* the sequences that hold every element of set once
Orderings(set) ==
    {s \in [1..Cardinality(set) -> set] : \A i, j \in DOMAIN s : i # j => s[i] # s[j]}

\* the maps of the value m, each by its path
MapsOf(m) == {p \in DOMAIN m : Kind(m[p].t) = "Map"}

\* value.MapKeys() returns the keys of a map in an unspecified order, and the
\* encoder calls it afresh for every map it ranges over.  An element of
\* KeyOrders(m) gives, for each map of m by itself, the order of its own keys
\* in the one range over it: the order of one map says nothing of another's.
KeyOrders(m) ==
    {o \in [MapsOf(m) -> UNION {Orderings(MapKeys(m, p)) : p \in MapsOf(m)}] :
        \A p \in MapsOf(m) : o[p] \in Orderings(MapKeys(m, p))}

\* the name a struct field is written under: tag.Get("zpl") when the tag
\* holds a ":", the tag itself otherwise
FieldName(tag) == IF \E i \in 1..Len(tag) : tag[i] = ":" THEN TagGet(tag) ELSE tag

RECURSIVE marshalProperty(_, _, _, _, _)
RECURSIVE encode(_, _, _, _)

\* for _, key := range value.MapKeys() { marshalProperty(e, key, value.MapIndex(key)) }
\* keys is what is left of the range over the map at p; orders is handed on
\* for the maps below it
RECURSIVE marshalEntries(_, _, _, _, _)
marshalEntries(enc, m, p, keys, orders) ==
    IF keys = <<>> \/ enc.panic THEN enc
    ELSE marshalEntries(marshalProperty(enc, m, Head(keys), Append(p, MapKey(Head(keys))), orders),
                        m, p, Tail(keys), orders)

\* the fields of the struct at p from field i on, those with a tag
RECURSIVE encodeFields(_, _, _, _, _)
encodeFields(enc, m, p, i, orders) ==
    IF i > Len(Fields(m[p].t)) \/ enc.panic THEN enc
    ELSE IF Len(Fields(m[p].t)[i].Tag) = 0 THEN encodeFields(enc, m, p, i + 1, orders)
    ELSE encodeFields(marshalProperty(enc, m, FieldName(Fields(m[p].t)[i].Tag),
                                      Append(p, Field(i)), orders),
                      m, p, i + 1, orders)

\* if name != "*" { e.endSection() }
endUnlessStar(enc, name) ==
    IF name = StarTag \/ enc.panic THEN enc ELSE Encoder_endSection(enc)

\* an encoder that opens a section for every map, the one named * too
startAlways(enc, name) == Encoder_startSection(enc, name)

\* if name != "*" { e.startSection(name) }
startUnlessStar(enc, name) ==
    IF name = StarTag THEN enc ELSE Encoder_startSection(enc, name)

endAfter(enc) == IF enc.panic THEN enc ELSE Encoder_endSection(enc)

\* marshalProperty(e, name, value), value the one at p: the switch on its kind.
\* The value of an interface is held at the interface's own path.  The map at
\* p is ranged in its own order, orders[p]; key.Interface().(string) panics on
\* the first key of a map whose keys are no strings.  value.Type() panics on
\* the zero Value.
marshalProperty(enc, m, name, p, orders) ==
    CASE Kind(m[p].t) = "Invalid" -> [enc EXCEPT !.panic = TRUE]
      [] Kind(m[p].t) = "Map" ->
            IF Kind(KeyType(m[p].t)) # "String" /\ MapKeys(m, p) # {}
            THEN [startUnlessStar(enc, name) EXCEPT !.panic = TRUE]
            ELSE endUnlessStar(marshalEntries(startUnlessStar(enc, name), m, p,
                                              orders[p], orders),
                               name)
      [] Kind(m[p].t) = "Struct" ->
            endAfter(encode(Encoder_startSection(enc, name), m, p, orders))
      [] Kind(m[p].t) \in {"Int", "Int16", "Int32", "Int64"} ->
            Encoder_addValue(enc, name, FormatInt(m[p].n))
      [] Kind(m[p].t) \in {"Uint", "Uint16", "Uint32", "Uint64"} ->
            Encoder_addValue(enc, name, FormatUint(m[p].n))
      [] Kind(m[p].t) \in {"Float32", "Float64"} ->
            Encoder_addValue(enc, name, FormatFloat(m[p].f))
      [] Kind(m[p].t) = "Bool" ->
            Encoder_addValue(enc, name, IF m[p].b THEN <<"1">> ELSE <<"0">>)
      [] Kind(m[p].t) = "String" -> Encoder_addValue(enc, name, m[p].str)
      [] Kind(m[p].t) = "Ptr" ->
            IF m[p].isnil THEN enc ELSE marshalProperty(enc, m, name, Append(p, Deref), orders)
      \* default: silently fail to marshal (slices among the rest)
      [] OTHER -> enc

\* Encoder.encode(value), value the one at p.  value.Type() panics on the
\* zero Value: that is reflect.ValueOf(nil), the value of Encode(nil), and
\* value.Elem() of a nil pointer.  A nil interface at the root is the nil
\* handed to Encode.  The map at p is ranged in its own order, orders[p].
encode(enc, m, p, orders) ==
    CASE Kind(m[p].t) = "Invalid" -> [enc EXCEPT !.panic = TRUE]
      [] Kind(m[p].t) = "Interface" /\ p = <<>> -> [enc EXCEPT !.panic = TRUE]
      [] Kind(m[p].t) = "Ptr" ->
            IF m[p].isnil THEN [enc EXCEPT !.panic = TRUE]
            ELSE encode(enc, m, Append(p, Deref), orders)
      [] Kind(m[p].t) = "Map" ->
            IF Kind(KeyType(m[p].t)) = "String"
            THEN marshalEntries(enc, m, p, orders[p], orders)
            ELSE enc
      [] Kind(m[p].t) = "Struct" -> encodeFields(enc, m, p, 1, orders)
      [] OTHER -> enc

\* Marshal(v), v the value of the store m, its maps ranged in the orders of
\* orders: the bytes, or a panic
Marshal(m, orders) == encode(NewEncoder(Buffer), m, <<>>, orders)

(***************************************************************************)
(* Marshal, then Unmarshal of what it wrote into a fresh value.            *)
(***************************************************************************)
\* out := Marshal(src): the bytes are what Unmarshal is to read
Marshalled(enc) ==
    /\ r' = enc.w.out
    /\ pc' = IF enc.panic THEN "panic" ELSE "newBuilder"

MarshalStep ==
    /\ pc = "marshal"
    /\ \E orders \in KeyOrders(src) : Marshalled(Marshal(src, orders))
    /\ UNCHANGED <<doc, rt, chunk, eofEager, buffer, prevDepth, lineno, queue,
                   refs, mem, e, err, ret, consumed, src, w>>

NextRT == MarshalStep \/ DecodeStart \/ DecoderNext \/ BuilderConsume

\* a *int: nil, or a pointer to the one number of p
IntPtr(p) ==
    IF p = <<>> THEN Scalar(Zero("*int"))
    ELSE Install(New("*int"), <<Deref>>, Scalar(Node("int", FALSE, p[1], FALSE, <<>>, <<>>)))

\* Sub{B: b, N: n, V: v, S: s, P: p}
SubValue(b, n, v, s, p) ==
    Install(
      ((<<Field(1)>> :> Node("[]string", b = <<>>, 0, FALSE, <<>>, b))
        @@ (<<Field(2)>> :> Node("int16", FALSE, n, FALSE, <<>>, <<>>))
        @@ (<<Field(3)>> :> Node("bool", FALSE, 0, v, <<>>, <<>>))
        @@ (<<Field(4)>> :> Node("string", FALSE, 0, FALSE, s, <<>>))
        @@ ZeroAt(<<>>, "Sub")),
      <<Field(5)>>, IntPtr(p))

SubValues ==
    {SubValue(b, n, v, s, p) :
        b \in {<<>>, << <<"1">> >>, << <<"1">>, <<"2">> >>},
        n \in {0, 7}, v \in BOOLEAN, s \in {<<>>, <<"x">>}, p \in {<<>>, <<5>>}}

\* a *Sub: nil, or a pointer to the one Sub of a
SubPtr(a) ==
    IF a = <<>> THEN Scalar(Zero("*Sub")) ELSE Install(New("*Sub"), <<Deref>>, a[1])

\* a map[string]*Sub: nil when entries is empty, else its entries
RECURSIVE SubMap(_, _)
SubMap(keys, entries) ==
    IF keys = <<>> THEN Scalar(IF entries = <<>> THEN Zero("map[string]*Sub")
                               ELSE Made("map[string]*Sub"))
    ELSE Install(SubMap(Tail(keys), entries), <<MapKey(Head(keys))>>,
                 SubPtr(<<entries[Len(entries) - Len(keys) + 1]>>))

\* &Root{A: a, M: the entries under the keys, N: n}
RootValue(a, keys, entries, n) ==
    Install(Install(Install(New("*Root"),
                            <<Deref, Field(1)>>, SubPtr(a)),
                    <<Deref, Field(2)>>, SubMap(keys, entries)),
            <<Deref, Field(3)>>, Scalar(Node("int16", FALSE, n, FALSE, <<>>, <<>>)))

\* Marshal(v) and then Unmarshal(out, new(Root))
StartRT(v) ==
    /\ doc = [lines |-> <<>>, eol |-> <<LF>>, final |-> TRUE]
    /\ rt = "*Root"
    /\ r = <<>>
    /\ chunk = ReadSize
    /\ eofEager = FALSE
    /\ buffer = <<>>
    /\ prevDepth = 0
    /\ lineno = 0
    /\ queue = <<>>
    /\ refs = <<>>
    /\ mem = Target("*Root")
    /\ e = NoEvent
    /\ err = nil
    /\ ret = nil
    /\ pc = "marshal"
    /\ consumed = <<>>
    /\ src = v
    /\ w = Buffer

\* the Subs held by the entries of Root.M
EntryValues ==
    {SubValue(b, 0, FALSE, s, p) :
        b \in {<<>>, << <<"1">> >>, << <<"1">>, <<"2">> >>},
        s \in {<<>>, <<"x">>}, p \in {<<>>, <<5>>}}

\* the values marshalled: a Root with A nil or any Sub, M nil, one entry m or
\* the entries k and m, N zero or not
InitRT ==
    \E a \in {<<>>} \cup {<<s>> : s \in SubValues},
       entries \in {<<>>} \cup {<<s>> : s \in EntryValues}
                    \cup {<<SubValue(<<>>, 0, FALSE, <<"x">>, <<>>), s>> : s \in EntryValues},
       n \in {0, 7} :
        StartRT(RootValue(a, SubSeq(<<<<"k">>, <<"m">>>>, 3 - Len(entries), 2), entries, n))

SpecRT == InitRT /\ [][NextRT]_vars

\* the value at p of the source is not the zero value of its type
Populated(p) == src[p] # Zero(src[p].t)

\* C8: round-trip: for a typed value T of supported kinds only (scalars,
\* strings, sequences of strings, nested records, optional pointers, one
\* squash map), decoding Marshal(T) into a fresh value of T's type succeeds
\* and yields a value equal to T on all populated fields.
C8_RoundTrip ==
    (pc = "done" /\ src # EmptyStore) =>
        /\ ret = nil
        /\ \A p \in DOMAIN src : Populated(p) => p \in DOMAIN mem /\ mem[p] = src[p]

\* the same for the values with no sequence of strings and no empty string
\* in a record that is there
C8_NoSlicesNoEmpty ==
    (/\ pc = "done" /\ src # EmptyStore
     /\ \A p \in DOMAIN src : /\ Kind(src[p].t) = "Slice" => src[p].isnil
                              /\ Kind(src[p].t) = "String" => src[p].str # <<>>) =>
        /\ ret = nil
        /\ \A p \in DOMAIN src : Populated(p) => p \in DOMAIN mem /\ mem[p] = src[p]

\* a document in which every data line is of a grammar and none is deeper
\* than the sections open before it, from depth p on
RECURSIVE WellIndented(_, _)
WellIndentedLine(lines, p, match) ==
    /\ match.ok
    /\ DepthOf(match) <= p
    /\ WellIndented(Tail(lines), DepthAfter(match, p))

WellIndented(lines, p) ==
    \/ lines = <<>>
    \/ WellIndentedLine(lines, p, FindSubmatch(Head(lines)))

ValidDocument(d) == WellIndented(DataLines(d.lines), 0)

\* the first k lines of d, each terminated
FirstLines(d, k) == [d EXCEPT !.lines = SubSeq(d.lines, 1, k), !.final = TRUE]

\* the lines of d after the first k
LastLines(d, k) == [d EXCEPT !.lines = SubSeq(d.lines, k + 1, Len(d.lines))]

\* Decode has left the target as b left it, with an error when a or b had one
SameAsBoth(a, b) == mem = b.mem /\ (ret = nil) = (a.ret = nil /\ b.ret = nil)

\* Unmarshal of a, then Unmarshal of b into the target a has left
SameAsSequence(a, b) ==
    SameAsBoth(Unmarshal(Bytes(a), rt, Target(rt)), 
               Unmarshal(Bytes(b), rt, Unmarshal(Bytes(a), rt, Target(rt)).mem))

\* C11: concatenation merges documents: for two valid documents A and B, A
\* ending with a line terminator, decoding A+B into a fresh target leaves the
\* target in the state, and returns the error status, of decoding A and then
\* B, each with a fresh Decoder, into one shared target.
C11_Concatenation ==
    pc = "done" =>
        \A k \in 1..(Len(doc.lines) - 1) :
            (ValidDocument(FirstLines(doc, k)) /\ ValidDocument(LastLines(doc, k)))
                => SameAsSequence(FirstLines(doc, k), LastLines(doc, k))

\* the same when B too ends with a line terminator and neither document ends
\* with a comment
C11_Terminated ==
    (pc = "done" /\ doc.final) =>
        \A k \in 1..(Len(doc.lines) - 1) :
            (/\ ValidDocument(FirstLines(doc, k)) /\ ValidDocument(LastLines(doc, k))
             /\ Unmarshal(Bytes(FirstLines(doc, k)), rt, Target(rt)).ret = nil
             /\ ret = nil)
                => SameAsSequence(FirstLines(doc, k), LastLines(doc, k))

\* builder.consume is about to take the EnterSection e for a dynamic mapping
\* that binds e's name to a value that is no mapping
EnterOverValue ==
    /\ pc = "consume"
    /\ e.Type = startSection
    /\ mem[top].t \in DynamicMaps
    /\ Append(top, MapKey(e.Name)) \in DOMAIN mem
    /\ Kind(mem[Append(top, MapKey(e.Name))].t) # "Map"

\* C12: type conflict on a dynamic mapping: EnterSection(name) for a dynamic
\* mapping whose key name already holds a value that is no mapping (the
\* sequence an earlier line name = v made) returns an error at that event, and
\* the value is not pushed onto the builder's stack as a write target.
C12_TypeConflict ==
    [][EnterOverValue => (pc' = "done" /\ ret' # nil /\ refs' = refs)]_vars

(***************************************************************************)
(* Decoding into typed records: settings at depth 0 of the fields of a     *)
(* Conf (n int16, u uint16, v bool, p *int), of the version float32 of a   *)
(* Dictionary, of no field, and a header.                                  *)
(***************************************************************************)
LineOf(name, value) == name \o <<SP, EQUALS, SP>> \o value

TypedLineSet ==
    { LineOf(<<"n">>, <<"7">>),
      LineOf(<<"n">>, <<"4", "0", "0", "0", "0">>),
      LineOf(<<"n">>, <<"x">>),
      LineOf(<<"u">>, <<"5">>),
      LineOf(<<"u">>, <<"-", "1">>),
      LineOf(<<"u">>, <<"7", "0", "0", "0", "0">>),
      LineOf(<<"v">>, <<"1">>),
      LineOf(<<"v">>, <<"m", "a", "y", "b", "e">>),
      LineOf(<<"p">>, <<"5">>),
      LineOf(<<"p">>, <<"x">>),
      LineOf(<<"z">>, <<"1">>),
      LineOf(<<"v", "e", "r", "s", "i", "o", "n">>, <<"0", ".", "1">>),
      LineOf(<<"v", "e", "r", "s", "i", "o", "n">>, <<"1", ".", "x">>),
      <<"a">>,
      <<"c">>,
      Spaces(4) \o LineOf(<<"n">>, <<"7">>) }

\* a record with no squash field, one with a squash field, one that holds a
\* record by value, one with a float32, a map of bool
TypedTargets == {"*Conf", "*Root", "*Host", "*Dictionary", "map[string]bool"}

\* Unmarshal(src, dst) with src at most MaxTypedLines of these lines, each
\* terminated by \n
InitTyped ==
    \E lines \in SeqsUpTo(TypedLineSet, MaxTypedLines), t \in TypedTargets :
        Start([lines |-> lines, eol |-> <<LF>>, final |-> TRUE], t)

SpecTyped == InitTyped /\ [][Next]_vars

\* builder.consume is about to take the LeafValue e for a record none of
\* whose fields is tagged e's name
UnknownLeaf ==
    /\ pc = "consume"
    /\ e.Type = addValue
    /\ Kind(mem[top].t) = "Struct"
    /\ Undeclared(mem[top].t, e.Name)

\* builder.consume is about to take the EnterSection e for a record with no
\* squash field, none of whose fields is tagged e's name
UnknownSection ==
    /\ pc = "consume"
    /\ e.Type = startSection
    /\ Kind(mem[top].t) = "Struct"
    /\ SquashField(mem[top].t, 1) = 0
    /\ Undeclared(mem[top].t, e.Name)

\* C13: unknown field: on a typed object, LeafValue(name, v) whose name equals
\* no declared field tag, and EnterSection(name) whose name equals no declared
\* field tag while the record has no squash field, return *UnmarshalFieldError
\* carrying the key and the record type; the target record is left unchanged
\* by that event.
C13_UnknownField ==
    [][(UnknownLeaf \/ UnknownSection) =>
        /\ pc' = "done"
        /\ ret' = UnmarshalFieldError(e.Name, mem[top].t)
        /\ mem' = mem
        /\ refs' = refs]_vars

\* u = 5 has set Conf.U, then the header a has failed: Conf has no field a and
\* no squash field
C13_Witness ==
    /\ pc = "done"
    /\ rt = "*Conf"
    /\ ret = UnmarshalFieldError(<<"a">>, "Conf")
    /\ mem[<<Deref, Field(2)>>].n = IntOf(5)

\* z = 1 has failed on a Root, whose squash field takes no setting
C13_WitnessLeaf ==
    /\ pc = "done"
    /\ rt = "*Root"
    /\ ret = UnmarshalFieldError(<<"z">>, "Root")

\* the slot a LeafValue named name is for, in the section at the top of the
\* builder's stack: the field tagged name, or the map's entry for name
LeafSlot(name) ==
    IF Kind(mem[top].t) = "Struct"
    THEN Append(top, Field(leafField(Fields(mem[top].t), 1, name, 0)))
    ELSE Append(top, MapKey(name))

\* the type of that slot, the pointed-to type for a pointer
LeafType(name) ==
    IF Kind(mem[top].t) = "Struct"
    THEN Fields(mem[top].t)[leafField(Fields(mem[top].t), 1, name, 0)].Type
    ELSE Elem(mem[top].t)

ScalarOf(t) == IF Kind(t) = "Ptr" THEN Elem(t) ELSE t

\* value spells a base-10 integer: an optional sign for the signed types, then
\* decimal digits
IsInteger(value, signed) ==
    /\ value # <<>>
    /\ IF signed /\ value[1] \in {"+", "-"}
       THEN Len(value) > 1 /\ \A i \in 2..Len(value) : value[i] \in Digits
       ELSE \A i \in 1..Len(value) : value[i] \in Digits

\* the integer value spells
IntegerOf(value) ==
    IF value[1] = "-" THEN 0 - Decimal(Tail(value))
    ELSE IF value[1] = "+" THEN Decimal(Tail(value))
    ELSE Decimal(value)

\* the integers of a type of kind k that is bits bits wide (the settings here
\* spell no number beyond 32 bits)
FitsWidth(n, signed, bits) ==
    \/ bits >= 32
    \/ signed /\ 0 - 2 ^ (bits - 1) <= n /\ n < 2 ^ (bits - 1)
    \/ ~signed /\ 0 <= n /\ n < 2 ^ bits

SignedKinds == {"Int", "Int16", "Int32", "Int64"}
UnsignedKinds == {"Uint", "Uint16", "Uint32", "Uint64"}
FloatKinds == {"Float32", "Float64"}

\* value spells a decimal number: an optional sign, then digits with at most
\* one point among them, one digit at least (the settings here spell no
\* exponent and no number beyond a float32)
IsDecimal(value) ==
    /\ \E i \in 1..Len(value) : value[i] \in Digits
    /\ \A i \in 1..Len(value) : value[i] \in Digits \cup {"."} \/ (i = 1 /\ value[i] \in {"+", "-"})
    /\ Cardinality({i \in 1..Len(value) : value[i] = "."}) <= 1

\* value is a spelling of a value of the scalar type t
Coerces(t, value) ==
    CASE Kind(t) = "Bool" -> value \in BoolTrue \cup BoolFalse
      [] Kind(t) \in SignedKinds \cup UnsignedKinds ->
            /\ IsInteger(value, Kind(t) \in SignedKinds)
            /\ FitsWidth(IntegerOf(value), Kind(t) \in SignedKinds, Bits(t))
      [] Kind(t) \in FloatKinds -> IsDecimal(value)
      [] OTHER -> TRUE

\* builder.consume is about to take the LeafValue e for a slot of a scalar
\* type (or a pointer to one) of which e's value is no spelling
LeafNotCoerced ==
    /\ pc = "consume"
    /\ e.Type = addValue
    /\ Kind(mem[top].t) \in {"Struct", "Map"}
    /\ Kind(mem[top].t) = "Struct" => ~Undeclared(mem[top].t, e.Name)
    /\ Kind(mem[top].t) = "Map" => Kind(KeyType(mem[top].t)) = "String"
    /\ Kind(ScalarOf(LeafType(e.Name)))
            \in {"Bool"} \cup SignedKinds \cup UnsignedKinds \cup FloatKinds
    /\ ~Coerces(ScalarOf(LeafType(e.Name)), e.Value)

\* C14: type error on coercion: a LeafValue whose string cannot be parsed as
\* the destination's scalar type (bool, signed or unsigned integer, float), or
\* whose base-10 integer does not fit the destination's bit width (40000 into
\* an int16 slot), returns *UnmarshalTypeError at that event and the
\* destination slot keeps the value it had before the event: no truncated or
\* wrapped value is stored.  The records here hold bool, int16, uint16, *int
\* and float32 slots.
C14_TypeErrorOnCoercion ==
    [][LeafNotCoerced =>
        /\ pc' = "done"
        /\ ret' = UnmarshalTypeError(e.Value, ScalarOf(LeafType(e.Name)))
        /\ mem' = mem]_vars

\* n = 7 has set Conf.N, then n = 40000 has failed and N is still 7
C14_Witness ==
    /\ pc = "done"
    /\ rt = "*Conf"
    /\ ret = UnmarshalTypeError(<<"4", "0", "0", "0", "0">>, "int16")
    /\ mem[<<Deref, Field(1)>>].n = IntOf(7)

(***************************************************************************)
(* Encode(v) on an Encoder over a writer that fails or not.                *)
(***************************************************************************)
\* err := NewEncoder(w).Encode(v).  marshalProperty returns no error but
\* endSection's, and that one is nil: fault stays nil
Encoded(enc) ==
    /\ w' = enc.w
    /\ ret' = nil
    /\ pc' = IF enc.panic THEN "panic" ELSE "encoded"

\* the keys of the maps of the values encoded here
EncKeyNames == {StarTag, <<"k">>}

EncodeStep ==
    /\ pc = "encode"
    /\ \E orders \in KeyOrders(src) : Encoded(encode(NewEncoder(w), src, <<>>, orders))
    /\ UNCHANGED <<doc, rt, r, chunk, eofEager, buffer, prevDepth, lineno, queue,
                   refs, mem, e, err, consumed, src>>

NextEnc == EncodeStep

StringValue(s) == Scalar(Node("string", FALSE, 0, FALSE, s, <<>>))

\* a []string: nil when l is empty
StringsValue(l) == Scalar(Node("[]string", l = <<>>, 0, FALSE, <<>>, l))

\* &Conf{N: n, U: u, V: v, P: p, H: h, X: x, L: l}
ConfValue(n, u, v, p, h, x, l) ==
    Install(Install(Install(Install(
        ((<<Deref, Field(1)>> :> Node("int16", FALSE, n, FALSE, <<>>, <<>>))
          @@ (<<Deref, Field(2)>> :> Node("uint16", FALSE, u, FALSE, <<>>, <<>>))
          @@ (<<Deref, Field(3)>> :> Node("bool", FALSE, 0, v, <<>>, <<>>))
          @@ New("*Conf")),
        <<Deref, Field(4)>>, IntPtr(p)),
        <<Deref, Field(5)>>, StringValue(h)),
        <<Deref, Field(6)>>, StringValue(x)),
        <<Deref, Field(7)>>, StringsValue(l))

ConfValues ==
    {ConfValue(n, 5, v, p, <<"h">>, <<"x">>, l) :
        n \in {0, 7}, v \in BOOLEAN, p \in {<<>>, <<5>>},
        l \in {<<>>, << <<"1">> >>, << <<"1">>, <<"2">> >>}}

\* a map of type t with the entries of the function entries (key to value)
RECURSIVE MapValue(_, _, _)
MapValue(t, keys, entries) ==
    IF keys = {} THEN Scalar(Made(t))
    ELSE Install(MapValue(t, keys \ {CHOOSE k \in keys : TRUE}, entries),
                 <<MapKey(CHOOSE k \in keys : TRUE)>>,
                 entries[CHOOSE k \in keys : TRUE])

\* map[string]string{}, map[string]string{"k": "x"} and
\* map[string]string{"k": "x", "m": "y"}
StringMaps ==
    { Scalar(Made("map[string]string")),
      Install(Scalar(Made("map[string]string")), <<MapKey(<<"k">>)>>, StringValue(<<"x">>)),
      Install(Install(Scalar(Made("map[string]string")),
                      <<MapKey(<<"k">>)>>, StringValue(<<"x">>)),
              <<MapKey(<<"m">>)>>, StringValue(<<"y">>)) }

\* map[string]map[string]string values with entries under * and k
NestedMaps ==
    UNION {{MapValue("map[string]map[string]string", keys, entries) :
                entries \in [keys -> StringMaps]} : keys \in (SUBSET EncKeyNames) \ {{}}}

\* what a map[string]interface{} holds here: sequences of strings, a map, a
\* record behind a pointer, a number
DynamicEntries ==
    {StringsValue(<< <<"1">> >>), StringsValue(<< <<"1">>, <<"2">> >>),
     SubPtr(<<SubValue(<< <<"1">> >>, 7, TRUE, <<"x">>, <<>>)>>),
     Scalar(Node("int", FALSE, 1, FALSE, <<>>, <<>>))} \cup StringMaps

DynamicValues ==
    UNION {{MapValue("map[string]interface {}", keys, entries) :
                entries \in [keys -> DynamicEntries]} : keys \in (SUBSET EncKeyNames) \ {{}}}

\* Roots with A nil or a Sub, M nil or with the entry k
RootValues ==
    {RootValue(a, SubSeq(<< <<"k">> >>, 1, Len(entries)), entries, n) :
        a \in {<<>>, <<SubValue(<< <<"1">>, <<"2">> >>, 7, TRUE, <<"x">>, <<5>>)>>},
        entries \in {<<>>, <<SubValue(<<>>, 0, FALSE, <<"x">>, <<>>)>>},
        n \in {0, 7}}

\* of the values of TestMarshal_Map: map[string]int{"version": 1},
\* map[string]map[string]string{"*": {"c0": "test"}} and marshalMock{Int: &i}
MarshalCases ==
    { Install(Scalar(Made("map[string]int")), <<MapKey(<<"v", "e", "r", "s", "i", "o", "n">>)>>,
              Scalar(Node("int", FALSE, 1, FALSE, <<>>, <<>>))),
      Install(Scalar(Made("map[string]map[string]string")), <<MapKey(StarTag)>>,
              Install(Scalar(Made("map[string]string")), <<MapKey(<<"c", "0">>)>>,
                      StringValue(<<"t", "e", "s", "t">>))),
      Install(ZeroAt(<<>>, "marshalMock"), <<Field(1)>>, IntPtr(<<1>>)) }

\* Encode(nil)
NilValue == Scalar(Zero("nil"))

EncValues ==
    ConfValues \cup NestedMaps \cup DynamicValues \cup RootValues \cup MarshalCases
        \cup {NilValue}

\* the writers: a bytes.Buffer, and those that fail after at most MaxWrites
\* calls of Write
Writers == {Buffer} \cup {FailingAfter(k) : k \in 0..MaxWrites}

StartEnc(v, writer) ==
    /\ doc = [lines |-> <<>>, eol |-> <<LF>>, final |-> TRUE]
    /\ rt = ""
    /\ r = <<>>
    /\ chunk = ReadSize
    /\ eofEager = FALSE
    /\ buffer = <<>>
    /\ prevDepth = 0
    /\ lineno = 0
    /\ queue = <<>>
    /\ refs = <<>>
    /\ mem = EmptyStore
    /\ e = NoEvent
    /\ err = nil
    /\ ret = nil
    /\ pc = "encode"
    /\ consumed = <<>>
    /\ src = v
    /\ w = writer

InitEnc == \E v \in EncValues, writer \in Writers : StartEnc(v, writer)

SpecEnc == InitEnc /\ [][NextEnc]_vars

\* Marshal(src) has returned
MarshalReturned == pc = "encoded" /\ w.left = NeverFails

\* the lines written, without their \n
RECURSIVE WrittenLines(_, _)
WrittenLines(bytes, line) ==
    IF bytes = <<>> THEN (IF line = <<>> THEN <<>> ELSE <<line>>)
    ELSE IF Head(bytes) = LF THEN <<line>> \o WrittenLines(Tail(bytes), <<>>)
    ELSE WrittenLines(Tail(bytes), Append(line, Head(bytes)))

Parent(p) == SubSeq(p, 1, Len(p) - 1)

\* the name the value at p of the source is written under: the key of a map
\* entry, the declared name of a field; a pointer's value goes by the name of
\* the pointer
RECURSIVE NameAt(_)
NameAt(p) ==
    IF p = <<>> THEN <<>>
    ELSE IF p[Len(p)].k = "key" THEN p[Len(p)].name
    ELSE IF p[Len(p)].k = "field"
         THEN FieldName(Fields(src[Parent(p)].t)[p[Len(p)].i].Tag)
    ELSE NameAt(Parent(p))

IsContainer(q) == Kind(src[q].t) \in {"Map", "Struct"}

\* the value at q is a section of the output: a map or record below the
\* top-level one, but for a map named *
OpensSection(q) ==
    /\ IsContainer(q)
    /\ \E k \in 0..(Len(q) - 1) : IsContainer(SubSeq(q, 1, k))
    /\ ~(Kind(src[q].t) = "Map" /\ NameAt(q) = StarTag)

\* the sections open where the value at p is written
SectionsAbove(p) == Cardinality({k \in 0..(Len(p) - 1) : OpensSection(SubSeq(p, 1, k))})

\* the lines name = v1, ..., name = vn for the sequence at p, at its indent
RepeatedLines(p) ==
    [i \in 1..Len(src[p].elems) |->
        Spaces(4 * SectionsAbove(p)) \o NameAt(p) \o <<SP, EQUALS, SP>> \o src[p].elems[i]]

\* block is a run of consecutive lines of lines
Occurs(lines, block) ==
    \E i \in 0..(Len(lines) - Len(block)) : SubSeq(lines, i + 1, i + Len(block)) = block

\* C15: array and slice values encode as repetitions of the same property: for
\* a field or map entry named k holding the sequence [v1, ..., vn], Marshal
\* writes n lines k = vi at the current indent, in sequence order.
C15_SlicesRepeat ==
    MarshalReturned =>
        \A p \in DOMAIN src :
            Kind(src[p].t) = "Slice" => Occurs(WrittenLines(w.out, <<>>), RepeatedLines(p))

\* what Marshal does: it writes no line for a sequence
C15_SlicesDropped ==
    MarshalReturned =>
        \A p \in DOMAIN src :
            (Kind(src[p].t) = "Slice" /\ src[p].elems # <<>>) =>
                \A i \in 1..Len(src[p].elems) :
                    ~Occurs(WrittenLines(w.out, <<>>), <<RepeatedLines(p)[i]>>)

\* the key of a written line: what follows its indent, up to the next space
LineKey(line) ==
    SubSeq(line, Run(line, 1, {SP}) + 1,
           Run(line, 1, {SP}) + Run(line, Run(line, 1, {SP}) + 1, Letters \cup Digits \cup {"-", "*"}))

\* the lines whose key is none of keys
RECURSIVE LinesBut(_, _)
LinesBut(lines, keys) ==
    IF lines = <<>> THEN <<>>
    ELSE IF LineKey(Head(lines)) \in keys THEN LinesBut(Tail(lines), keys)
    ELSE <<Head(lines)>> \o LinesBut(Tail(lines), keys)

\* the lines of the fields n, u, v and p of the Conf at p, in this order: the
\* tagged fields of a Conf that hold no sequence, but for the one tagged "-"
ConfLines(p) ==
    << <<"n", SP, EQUALS, SP>> \o FormatInt(src[Append(p, Field(1))].n),
       <<"u", SP, EQUALS, SP>> \o FormatUint(src[Append(p, Field(2))].n),
       <<"v", SP, EQUALS, SP>> \o (IF src[Append(p, Field(3))].b THEN <<"1">> ELSE <<"0">>) >>
    \o (IF src[Append(p, Field(4))].isnil THEN <<>>
        ELSE << <<"p", SP, EQUALS, SP>> \o FormatInt(src[p \o <<Field(4), Deref>>].n) >>)

\* C16: struct field selection on encode: a struct field whose tag is zpl:"-"
\* is ignored by Marshal (no line is written for it), and a field with no
\* declared name is excluded from the output entirely; every other tagged
\* field is written under its declared name, in declared-field order.  (The
\* lines of the sequence L, tagged l, are left aside here.)
C16_FieldSelection ==
    (MarshalReturned /\ src[<<>>].t = "*Conf") =>
        LinesBut(WrittenLines(w.out, <<>>), {<<"l">>}) = ConfLines(<<Deref>>)

\* the same but for the field tagged "-", of which nothing is said
C16_Untagged ==
    (MarshalReturned /\ src[<<>>].t = "*Conf") =>
        LinesBut(WrittenLines(w.out, <<>>), {<<"l">>, <<"-">>}) = ConfLines(<<Deref>>)

\* the lines marshalProperty writes at indent for the value at p, which is no
\* map and no record
LeafLines(p, name, indent, orders) ==
    WrittenLines(marshalProperty([NewEncoder(Buffer) EXCEPT !.indent = indent],
                                 src, name, p, orders).w.out, <<>>)

RECURSIVE SectionLines(_, _, _, _)
RECURSIVE EntryLines(_, _, _, _)
RECURSIVE FieldLines(_, _, _, _)

\* The lines of the value at p written under name at indent: a map named *
\* is its entries at indent; any other map or record is the header line name
\* at indent and then its children one level (4 spaces) deeper.
SectionLines(p, name, indent, orders) ==
    CASE Kind(src[p].t) = "Map" /\ name = StarTag ->
            EntryLines(p, orders[p], indent, orders)
      [] Kind(src[p].t) = "Map" /\ name # StarTag ->
            <<indent \o name>>
                \o EntryLines(p, orders[p], indent \o Spaces(4), orders)
      [] Kind(src[p].t) = "Struct" ->
            <<indent \o name>> \o FieldLines(p, 1, indent \o Spaces(4), orders)
      [] Kind(src[p].t) = "Ptr" ->
            IF src[p].isnil THEN <<>> ELSE SectionLines(Append(p, Deref), name, indent, orders)
      [] OTHER -> LeafLines(p, name, indent, orders)

\* the entries of the map at p under keys, in this order
EntryLines(p, keys, indent, orders) ==
    IF keys = <<>> THEN <<>>
    ELSE SectionLines(Append(p, MapKey(Head(keys))), Head(keys), indent, orders)
            \o EntryLines(p, Tail(keys), indent, orders)

\* the fields of the record at p from field i on, those with a tag
FieldLines(p, i, indent, orders) ==
    IF i > Len(Fields(src[p].t)) THEN <<>>
    ELSE IF Fields(src[p].t)[i].Tag = <<>> THEN FieldLines(p, i + 1, indent, orders)
    ELSE SectionLines(Append(p, Field(i)), FieldName(Fields(src[p].t)[i].Tag), indent, orders)
            \o FieldLines(p, i + 1, indent, orders)

\* the lines of the value handed to Marshal: no header for the value itself
RECURSIVE TopLines(_, _)
TopLines(p, orders) ==
    CASE Kind(src[p].t) = "Ptr" -> TopLines(Append(p, Deref), orders)
      [] Kind(src[p].t) = "Map" ->
            EntryLines(p, orders[p], <<>>, orders)
      [] OTHER -> FieldLines(p, 1, <<>>, orders)

\* C17: squash on encode: a map reached under the name * (a *-tagged struct
\* field or a map entry keyed *) writes no section-header line and its entries
\* are written at the current indent level; every other nested map or struct
\* writes one header line name and its children exactly one indent level (4
\* spaces) deeper.
C17_SquashOnEncode ==
    MarshalReturned =>
        \E orders \in KeyOrders(src) : WrittenLines(w.out, <<>>) = TopLines(<<>>, orders)

\* Marshal(map[string]map[string]string{"*": {"k": "x", "m": "y"},
\* "k": {"k": "x", "m": "y"}}) has written the entries of * at no indent, m
\* before k, and then the section k, its entries one level deeper, k before m
C17_Witness ==
    /\ MarshalReturned
    /\ src[<<>>].t = "map[string]map[string]string"
    /\ MapKeys(src, <<>>) = EncKeyNames
    /\ WrittenLines(w.out, <<>>) =
            << <<"m", SP, EQUALS, SP, "y">>,
               <<"k", SP, EQUALS, SP, "x">>,
               <<"k">>,
               <<SP, SP, SP, SP, "k", SP, EQUALS, SP, "x">>,
               <<SP, SP, SP, SP, "m", SP, EQUALS, SP, "y">> >>

\* Encode has ended, by a return or by a panic, on a writer that has failed
EncodeFailed == pc \in {"encoded", "panic"} /\ w.failed

\* C18: encode failure propagation: if the underlying writer fails on any
\* write (a section header or a key = value line), Encode stops writing,
\* returns that error to the caller, and does not terminate abnormally (no
\* panic from section bookkeeping).
C18_FailurePropagation ==
    EncodeFailed => (pc = "encoded" /\ ret # nil /\ w.late = 0)

\* its parts, each by itself: no panic; no call of Write after the failure;
\* the error returned
C18_NoPanic == EncodeFailed => pc = "encoded"
C18_StopsWriting == EncodeFailed => w.late = 0
C18_ErrorReturned == (EncodeFailed /\ pc = "encoded") => ret # nil

\* Some key-value line of lines is deeper than the sections open before it,
\* p of them before the first line; the lines before it are of a grammar and
\* none is deeper than the sections open before it.
RECURSIVE OverIndented(_, _)
OverIndentedLine(lines, p, match) ==
    /\ match.ok
    /\ \/ match.hasvalue # <<>> /\ DepthOf(match) > p
       \/ DepthOf(match) <= p /\ OverIndented(Tail(lines), DepthAfter(match, p))

OverIndented(lines, p) ==
    /\ lines # <<>>
    /\ OverIndentedLine(lines, p, FindSubmatch(Head(lines)))

\* C19: over-indentation is rejected: Unmarshal returns an error for every
\* document in which a key-value line is indented deeper than the currently
\* open section depth (the first data line indented by 4 spaces while no
\* section is open), regardless of which comment or blank lines precede it and
\* of whether the line is terminated.
C19_OverIndentation ==
    (pc = "done" /\ OverIndented(DataLines(doc.lines), 0)) => ret # nil

\* what Decode does with such a document when no other line of it is at
\* fault: it returns no error
C19_Accepted ==
    (/\ pc = "done"
     /\ Len(doc.lines) = 1
     /\ doc.final
     /\ OverIndented(doc.lines, 0)) => ret = nil

(***************************************************************************)
(* Documents with lines of spaces and tabs only.                           *)
(***************************************************************************)
BlankLineSet ==
    { <<SP>>, <<SP, SP, SP, SP>>, <<TAB>>, <<"a">>, <<"b", SP, EQUALS, SP, "1">> }

\* Unmarshal(src, m) with src at most MaxBlankLines of these lines, the last
\* one terminated or not, m a map[string]interface{}
InitBlank ==
    \E lines \in SeqsUpTo(BlankLineSet, MaxBlankLines), eol \in {<<LF>>, <<CR, LF>>},
       final \in BOOLEAN :
        Start([lines |-> lines, eol |-> eol, final |-> final], "map[string]interface {}")

SpecBlank == InitBlank /\ [][Next]_vars

\* the document with each line of spaces and tabs only replaced by an empty line
Emptied(d) ==
    [d EXCEPT !.lines = [i \in DOMAIN d.lines |->
                            IF Trim(d.lines[i]) = <<>> THEN <<>> ELSE d.lines[i]]]

\* C20: a line whose content is only spaces and/or tabs (trimmed content
\* empty) is consumed and skipped like an empty line: it yields no event, no
\* error and no abnormal termination, and decoding continues with the next
\* line.  Decode ends by a return, having consumed the events of the document
\* with those lines empty, and with an error only if that one has one.
C20_WhitespaceLines ==
    pc \in {"done", "panic"} =>
        /\ pc = "done"
        /\ SameOutcome(Unmarshal(Bytes(Emptied(doc)), rt, Target(rt)))

\* its parts: no abnormal termination; no error that the document with empty
\* lines does not have
C20_NoPanic == pc # "panic"
C20_NoError ==
    pc = "done" => (ret = nil) = (Unmarshal(Bytes(Emptied(doc)), rt, Target(rt)).ret = nil)

(***************************************************************************)
(* Documents of settings with quoted values.                               *)
(***************************************************************************)
\* the line indent key = "v"
QuotedLine(indent, key, v) == indent \o key \o <<SP, EQUALS, SP, QUOTE>> \o v \o <<QUOTE>>

\* the values between the quotes: one that starts with #, plain ones, one
\* with a space and one with a quote inside, one that starts with a space and
\* the empty one
QuotedValues ==
    { <<HASH, "2">>, <<"x">>, <<"a", SP, "b">>, <<"a", QUOTE, "b">>, <<SP, "x">>, <<>> }

QuotedLineSet ==
    {QuotedLine(indent, <<"k">>, v) : indent \in {<<>>, Spaces(4)}, v \in QuotedValues}

\* Unmarshal(src, m) with src at most MaxQuotedLines of these lines, the last
\* one terminated or not, m a map[string]interface{}
InitQuoted ==
    \E lines \in SeqsUpTo(QuotedLineSet, MaxQuotedLines), final \in BOOLEAN :
        Start([lines |-> lines, eol |-> <<LF>>, final |-> final], "map[string]interface {}")

SpecQuoted == InitQuoted /\ [][Next]_vars

\* what stands between the quotes of the line indent key = "v"
Between(line) == SubSeq(line, Run(line, 1, {SP}) + Len(LineKey(line)) + 5, Len(line) - 1)

\* LeafValue(key, v) for each line indent key = "v" of lines
LeafValues(lines) ==
    [i \in 1..Len(lines) |-> parseEvent(addValue, LineKey(lines[i]), Between(lines[i]))]

\* C21: quoted values: a line indent key = "v" yields LeafValue(key, v) with
\* the surrounding quotes removed and v otherwise verbatim; a value beginning
\* with # inside quotes (subscribe = "#2") decodes to the literal string #2
\* and is never treated as a comment or dropped.
C21_QuotedValues ==
    pc = "done" => (ret = nil /\ consumed = LeafValues(doc.lines))

\* the same for the values that are not empty and start with no space
C21_QuotedPlain ==
    (/\ pc = "done"
     /\ \A i \in 1..Len(doc.lines) :
            Between(doc.lines[i]) # <<>> /\ Between(doc.lines[i])[1] # SP)
        => (ret = nil /\ consumed = LeafValues(doc.lines))

\* the field of the record st tagged name, 0 when there is none
TaggedField(st, name) == leafField(Fields(st), 1, name, 0)

\* builder.consume is about to take the EnterSection e for a record whose
\* field tagged e's name is a record held by value
EnterByValue ==
    /\ pc = "consume"
    /\ e.Type = startSection
    /\ Kind(mem[top].t) = "Struct"
    /\ TaggedField(mem[top].t, e.Name) > 0
    /\ Kind(Fields(mem[top].t)[TaggedField(mem[top].t, e.Name)].Type) = "Struct"

\* C22: nested record held by value: EnterSection(name) on a typed object
\* whose field tagged name is a struct held by value (not a pointer) descends
\* into that field, so the following leaf values are stored in the nested
\* record and decode returns no error.
C22_NestedByValue ==
    [][EnterByValue =>
        /\ pc' # "panic"
        /\ ret' = nil
        /\ mem' = mem
        /\ refs' = Append(refs, Append(top, Field(TaggedField(mem[top].t, e.Name))))]_vars

\* the document c, then n = 7 inside it, decoded into a Host: no error, and
\* Host.Context.N is 7
C22_Stored ==
    (/\ pc = "done"
     /\ rt = "*Host"
     /\ doc.lines = << <<"c">>, Spaces(4) \o LineOf(<<"n">>, <<"7">>) >>)
        => /\ ret = nil
           /\ mem[<<Deref, Field(1), Field(2)>>].n = IntOf(7)

\* the events of type type among evs
CountOf(evs, type) == Cardinality({i \in 1..Len(evs) : evs[i].Type = type})

\* Decode has a builder and has not failed
Decoding == pc \in {"next", "consume"} \/ (pc = "done" /\ ret = nil)

\* C23: builder stack invariant: during any decode that has not yet failed,
\* after each consumed event the stack length equals 1 + (number of
\* EnterSection consumed) - (number of ExitSection consumed) and is at least 1
\* (the root is never popped); whenever the sequencer's queue is empty (and
\* the event it returned has been consumed) the stack length equals
\* previousDepth + 1, and previousDepth is never negative.
C23_StackInvariant ==
    Decoding =>
        /\ Len(refs) = 1 + CountOf(consumed, startSection) - CountOf(consumed, endSection)
        /\ Len(refs) >= 1
        /\ prevDepth >= 0
        /\ (pc = "next" /\ queue = <<>>) => Len(refs) = prevDepth + 1

\* two sections entered and one of them left: the stack holds the root and
\* one section, the queue is empty
C23_Witness ==
    /\ pc = "next"
    /\ queue = <<>>
    /\ CountOf(consumed, startSection) = 2
    /\ CountOf(consumed, endSection) = 1
    /\ Len(refs) = 2
    /\ prevDepth = 1

(***************************************************************************)
(* Documents with lines two levels deep and a key that is a section and a  *)
(* setting.                                                                *)
(***************************************************************************)
DeepLineSet ==
    { <<"a">>,
      Spaces(4) \o <<"b">>,
      Spaces(8) \o <<"c">>,
      Spaces(8) \o LineOf(<<"k">>, <<"1">>),
      LineOf(<<"a">>, <<"1">>),
      LineOf(<<"k">>, <<"1">>) }

\* Unmarshal(src, m) with src at most MaxDeepLines of these lines, the last
\* one terminated or not, m a map[string]interface{}
InitDeep ==
    \E lines \in SeqsUpTo(DeepLineSet, MaxDeepLines), final \in BOOLEAN :
        Start([lines |-> lines, eol |-> <<LF>>, final |-> final], "map[string]interface {}")

SpecDeep == InitDeep /\ [][Next]_vars

\* the line the next call of d.next() parses: the one its scan cuts, or at
\* io.EOF what is left in the buffer
ParsedLine(sc) == IF sc.err = EOF /\ Len(sc.line) = 0 THEN sc.buf ELSE sc.line

NextLine == ParsedLine(scanLines(lineno, <<>>, buffer, r, chunk, eofEager))

\* d.next() is about to parse a line of a grammar that is deeper than
\* d.prevDepth
DeeperLine(match) ==
    /\ pc = "next"
    /\ queue = <<>>
    /\ match.ok
    /\ DepthOf(match) > prevDepth

\* the step returns the line's own event and no other, with no error but
\* io.EOF; the depth grows by one for a header and not at all for a setting
TakenAsChild(match) ==
    /\ pc' = "consume"
    /\ e' = OwnEvent(match)
    /\ queue' = <<>>
    /\ err' \in {nil, EOF}
    /\ prevDepth' = prevDepth + (IF match.hasvalue # <<>> THEN 0 ELSE 1)

\* C24: deeper jumps are accepted silently: a matched line whose depth d is
\* greater than previousDepth (by one or more) produces no error and no
\* ExitSection; a key-value line leaves previousDepth unchanged and a section
\* header increases previousDepth by exactly 1 (not to d+1), so the line is
\* treated as a direct child of the currently open section.
C24_DeeperJumps ==
    [][DeeperLine(FindSubmatch(NextLine)) => TakenAsChild(FindSubmatch(NextLine))]_vars

\* the header c, two levels deep, as the first line: one section is open
\* after it
C24_Witness ==
    /\ pc = "consume"
    /\ Len(doc.lines) >= 1
    /\ doc.lines[1] = Spaces(8) \o <<"c">>
    /\ consumed = <<>>
    /\ e = parseEvent(startSection, <<"c">>, <<>>)
    /\ prevDepth = 1

\* the document with its last line terminated
Terminated(d) == [d EXCEPT !.final = TRUE]

\* C25: a final line without a terminator is decoded like a terminated one:
\* when end-of-input is reached with an unterminated last line at depth d <
\* previousDepth, all previousDepth - d queued ExitSection events and then the
\* line's own LeafValue/EnterSection event are consumed by the builder before
\* Decode returns; no queued event is discarded at end-of-input.  (Documents
\* with no blank and no comment line.)
C25_UnterminatedLast ==
    (/\ pc = "done"
     /\ ~doc.final
     /\ \A i \in 1..Len(doc.lines) : ~IsSkipped(doc.lines[i]))
        => /\ SameOutcome(Unmarshal(Bytes(Terminated(doc)), rt, Target(rt)))
           /\ queue = <<>>

\* the same when the last line is no shallower than the sections open before
\* it: it queues no ExitSection
C25_NoDedent ==
    (/\ pc = "done"
     /\ ~doc.final
     /\ doc.lines # <<>>
     /\ \A i \in 1..Len(doc.lines) : ~IsSkipped(doc.lines[i])
     /\ \A i \in 1..Len(doc.lines) : FindSubmatch(doc.lines[i]).ok
     /\ DepthOf(FindSubmatch(doc.lines[Len(doc.lines)]))
            >= Sequenced(SubSeq(doc.lines, 1, Len(doc.lines) - 1), 0, <<>>).depth)
        => /\ SameOutcome(Unmarshal(Bytes(Terminated(doc)), rt, Target(rt)))
           /\ queue = <<>>

(***************************************************************************)
(* Decode from other readers than a bytes.Reader: NewDecoder takes any     *)
(* io.Reader, and Read may return fewer bytes than asked for, and io.EOF   *)
(* together with the last bytes or on a later call.                        *)
(***************************************************************************)
\* the lines of the documents read in pieces: an empty line, a header, a line
\* of no grammar, a setting, a setting one level down
ReadLineSet ==
    { <<>>,
      <<"a">>,
      <<"a", " ", "b">>,
      <<"b", " ", "=", " ", "1">>,
      <<" ", " ", " ", " ", "b", " ", "=", " ", "2">> }

\* the most bytes a Read returns: one, two, or all that fit
ReadChunks == {1, 2, ReadSize}

\* Decode(v) on NewDecoder(rd), rd holding the bytes of d, returning at most ch
\* bytes a Read, and io.EOF with its last bytes when eager; when d.broken the
\* reader fails after the last byte instead of reporting io.EOF
StartReading(d, t, ch, eager) ==
    /\ doc = d
    /\ rt = t
    /\ r = Bytes(d) \o (IF d.broken THEN <<Broken>> ELSE <<>>)
    /\ chunk = ch
    /\ eofEager = eager
    /\ buffer = <<>>
    /\ prevDepth = 0
    /\ lineno = 0
    /\ queue = <<>>
    /\ refs = <<>>
    /\ mem = Target(t)
    /\ e = NoEvent
    /\ err = nil
    /\ ret = nil
    /\ pc = "newBuilder"
    /\ consumed = <<>>
    /\ src = EmptyStore
    /\ w = Buffer

InitRead ==
    \E lines \in SeqsUpTo(ReadLineSet, MaxReadLines), eol \in EOLs, final \in BOOLEAN,
       ch \in ReadChunks, eager \in BOOLEAN, broken \in BOOLEAN :
        StartReading([lines |-> lines, eol |-> eol, final |-> final, broken |-> broken],
                     "map[string]interface {}", ch, eager)

SpecRead == InitRead /\ [][Next]_vars

\* C26: end-of-input signalling does not change the result: for the same
\* input bytes Decode delivers the same event sequence and returns the same
\* error status whether the reader reports io.EOF together with its last bytes
\* or on a separate later Read (every Read returning all the bytes that fit, as
\* a bytes.Reader does).
C26_EOFSignalling ==
    (pc = "done" /\ chunk = ReadSize /\ ~doc.broken)
        => SameOutcome(Unmarshal(Bytes(doc), rt, Target(rt)))

\* the same for the documents with no line terminator in them: one line, not
\* terminated
C26_OneLine ==
    (pc = "done" /\ chunk = ReadSize /\ ~doc.broken /\ Len(doc.lines) <= 1 /\ ~doc.final)
        => SameOutcome(Unmarshal(Bytes(doc), rt, Target(rt)))

\* C27: line counting is independent of read chunking: for the same input
\* bytes the line counter, and so the Line of any SyntaxError, is the same for
\* every way the reader splits the input into Reads; a two-byte terminator
\* whose bytes arrive in different Reads is one line boundary.  (io.EOF on a
\* Read of its own, as a bytes.Reader reports it.)
C27_Chunking ==
    (pc = "done" /\ ~eofEager /\ ~doc.broken)
        => /\ ret = Unmarshal(Bytes(doc), rt, Target(rt)).ret
           /\ consumed = Unmarshal(Bytes(doc), rt, Target(rt)).consumed

\* the same under the one-byte terminators
C27_OneByteTerminators ==
    (pc = "done" /\ ~eofEager /\ ~doc.broken /\ Len(doc.eol) = 1)
        => /\ ret = Unmarshal(Bytes(doc), rt, Target(rt)).ret
           /\ consumed = Unmarshal(Bytes(doc), rt, Target(rt)).consumed

(***************************************************************************)
(* Decode into the records whose field tagged * is declared before, and    *)
(* after, a map field with a name of its own.                              *)
(***************************************************************************)
\* the lines of these documents: the header of the declared field w, a header
\* of no declared field, the header k one level down, and the setting b = 1
\* one and two levels down
StarLineSet ==
    { <<"w">>,
      <<"x">>,
      Spaces(4) \o <<"k">>,
      Spaces(4) \o LineOf(<<"b">>, <<"1">>),
      Spaces(8) \o LineOf(<<"b">>, <<"1">>) }

StarTargets == {"*StarFirst", "*StarLast"}

\* Unmarshal(src, dst) with src at most MaxStarLines of these lines, each
\* terminated by \n
InitStar ==
    \E lines \in SeqsUpTo(StarLineSet, MaxStarLines), t \in StarTargets :
        Start([lines |-> lines, eol |-> <<LF>>, final |-> TRUE], t)

SpecStar == InitStar /\ [][Next]_vars

\* builder.consume is about to take the EnterSection e for a record whose
\* field tagged e's name is a map with string keys
EnterDeclaredMap ==
    /\ pc = "consume"
    /\ e.Type = startSection
    /\ Kind(mem[top].t) = "Struct"
    /\ TaggedField(mem[top].t, e.Name) > 0
    /\ Kind(Fields(mem[top].t)[TaggedField(mem[top].t, e.Name)].Type) = "Map"
    /\ Kind(KeyType(Fields(mem[top].t)[TaggedField(mem[top].t, e.Name)].Type)) = "String"

\* the field of the record on top that is tagged e's name
DeclaredField == Append(top, Field(TaggedField(mem[top].t, e.Name)))

\* C28: exact match beats squash in any declaration order: when a section
\* name equals the declared name of a field, that field is the one resolved
\* and it is treated as a non-squash field whether the record's * field is
\* declared before or after it; a string-keyed map field becomes the write
\* target itself and no entry keyed by the section name is inserted into it.
C28_ExactBeatsSquash ==
    [][EnterDeclaredMap =>
        /\ refs' = Append(refs, DeclaredField)
        /\ Append(DeclaredField, MapKey(e.Name)) \notin DOMAIN mem']_vars

\* the same for the record that declares the named field before the * field
C28_StarLast ==
    [][(EnterDeclaredMap /\ rt = "*StarLast") =>
        /\ refs' = Append(refs, DeclaredField)
        /\ Append(DeclaredField, MapKey(e.Name)) \notin DOMAIN mem']_vars

\* builder.consume is about to take the LeafValue e for a dynamic mapping in
\* which e's key holds a nested mapping
LeafOverSection ==
    /\ pc = "consume"
    /\ e.Type = addValue
    /\ mem[top].t \in DynamicMaps
    /\ Append(top, MapKey(e.Name)) \in DOMAIN mem
    /\ Kind(mem[Append(top, MapKey(e.Name))].t) = "Map"

\* C29: leaf over an existing section: LeafValue(name, v) applied to a dynamic
\* mapping whose key name already holds a nested mapping ends with a type
\* error returned to the caller and never with a panic, and the nested mapping
\* is left unchanged.
C29_LeafOverSection ==
    [][LeafOverSection =>
        /\ pc' = "done"
        /\ ret'.kind = "UnmarshalTypeError"
        /\ mem' = mem]_vars

\* it does not end with a panic
C29_NoPanic == [][LeafOverSection => pc' # "panic"]_vars

\* whatever the outcome, the nested mapping is left unchanged
C29_Unchanged == [][LeafOverSection => mem' = mem]_vars

\* no string of the marshalled value is empty
NoEmptyString == \A p \in DOMAIN src : Kind(src[p].t) = "String" => src[p].str # <<>>

\* every line of the text matches the section-header or the key-value grammar
AllLinesMatch(bytes) ==
    \A i \in 1..Len(WrittenLines(bytes, <<>>)) : FindSubmatch(WrittenLines(bytes, <<>>)[i]).ok

\* C30: Encoder output is always decodable text: for every value made of
\* supported kinds whose strings contain no '#', no line break and no leading
\* space, every line the Encoder writes matches the line matcher's
\* section-header or key-value grammar, so decoding the output never returns a
\* SyntaxError, an empty string in a field or map entry included.
C30_DecodableOutput ==
    /\ pc = "newBuilder" => AllLinesMatch(r)
    /\ pc = "done" => ret.kind # "SyntaxError"

\* the same for the values none of whose strings is empty
C30_NoEmptyString ==
    NoEmptyString =>
        /\ pc = "newBuilder" => AllLinesMatch(r)
        /\ pc = "done" => ret.kind # "SyntaxError"

====
